---- MODULE Spec2Model ----
(***************************************************************************)
(* A model of the workspace of the Zen PDF editor (src/src/App.tsx): the   *)
(* documents map, the document order, the page list, the undo stack and    *)
(* the handlers that change them, and of assemblePdfFromPages.             *)
(*                                                                         *)
(* A handler started by a user event reads the state of the latest render  *)
(* (React commits the updates of one event before the next event is        *)
(* handled). An async handler keeps the values it closed over when it was  *)
(* started: it is modelled as a job that records them, and a later step    *)
(* that writes its result.                                                 *)
(***************************************************************************)
EXTENDS Integers, Sequences, FiniteSets, TLC

\* ------------------------------------------------------------------ bounds
MaxDocs == 3        \* document ids that can be created in one run
MaxOps == 4         \* handler invocations in one run

\* the largest page list the bounds allow
MaxPages == 2 * MaxDocs

VARIABLES
  documents,          \* App: documents (id -> DocumentEntry)
  documentOrder,      \* App: documentOrder
  pages,              \* App: pages
  undoStack,          \* App: undoStackRef.current
  canUndo,            \* App: canUndo
  isProcessing,       \* App: isProcessing
  isBlockingOverlay,  \* App: isBlockingOverlay
  jobs,               \* async handlers in flight, each with what it closed over
  nextDoc,            \* number of document ids handed out so far
  ops,                \* handler invocations so far
  last,               \* the last handler step: its name, outcome and pre-state
  trail,              \* the rotations made in a row: <<page id, direction>> each
  asm,                \* one call of assemblePdfFromPages: its arguments and result
  call                \* one call of a function that touches no state: fn, args, result

vars == <<documents, documentOrder, pages, undoStack, canUndo, isProcessing,
          isBlockingOverlay, jobs, nextDoc, ops, last, trail, asm, call>>

\* ----------------------------------------------------------------- helpers
Rotations == {0, 90, 180, 270}

DocId(n) == <<"doc", n>>

NoDocuments == [d \in {} |-> [pageCount |-> 0, encrypted |-> FALSE]]

Range(s) == {s[i] : i \in 1..Len(s)}

RECURSIVE UniqueInOrder(_)
\* Array.from(new Set(ids)): the distinct elements in order of first occurrence
UniqueInOrder(s) ==
  IF s = <<>> THEN <<>>
  ELSE LET front == UniqueInOrder(SubSeq(s, 1, Len(s) - 1))
           x == s[Len(s)]
       IN IF x \in Range(front) THEN front ELSE Append(front, x)

PageDocIds(ps) == [i \in 1..Len(ps) |-> ps[i].documentId]

\* the three collections a snapshot holds
Workspace == [documents |-> documents, documentOrder |-> documentOrder, pages |-> pages]

EmptyWorkspace == [documents |-> NoDocuments, documentOrder |-> <<>>, pages |-> <<>>]

hasWorkspaceContent == Len(pages) > 0

\* pushSnapshot: the handler's render holds the current state
PushSnapshot(stack) == Append(stack, Workspace)

Step(op, result) ==
  [op |-> op, result |-> result, pre |-> Workspace, first |-> FALSE]

\* a pointer event reaches the controls only when the overlay is not shown
Interactive == ~isBlockingOverlay /\ ops < MaxOps

\* no call of assemblePdfFromPages is being looked at
NoCall == [pageList |-> <<>>, docs |-> NoDocuments, preset |-> "none",
           bakeRotation |-> FALSE, env |-> <<>>, done |-> FALSE,
           result |-> [ok |-> FALSE, out |-> <<>>, tried |-> <<>>]]

\* no call of a function is being looked at
NoPureCall == [fn |-> "", args |-> <<>>, done |-> FALSE, result |-> <<>>]

\* -------------------------------------------------------------------- Init
Init ==
  /\ documents = NoDocuments
  /\ documentOrder = <<>>
  /\ pages = <<>>
  /\ undoStack = <<>>
  /\ canUndo = FALSE
  /\ isProcessing = FALSE
  /\ isBlockingOverlay = FALSE
  /\ jobs = <<>>
  /\ nextDoc = 0
  /\ ops = 0
  /\ last = [op |-> "init", result |-> "ok", pre |-> EmptyWorkspace, first |-> FALSE]
  /\ trail = <<>>
  /\ asm = NoCall
  /\ call = NoPureCall

\* every variable of the workspace as the App starts
Idle ==
  /\ documents = NoDocuments
  /\ documentOrder = <<>>
  /\ pages = <<>>
  /\ undoStack = <<>>
  /\ canUndo = FALSE
  /\ isProcessing = FALSE
  /\ isBlockingOverlay = FALSE
  /\ jobs = <<>>
  /\ nextDoc = 0
  /\ ops = 0
  /\ last = [op |-> "init", result |-> "ok", pre |-> EmptyWorkspace, first |-> FALSE]
  /\ trail = <<>>
  /\ asm = NoCall

\* ------------------------------------------------------------- handleUndo
\* handleUndo without its early return: an empty workspace is installed
UndoTargetNoGuard(stack) == IF stack = <<>> THEN EmptyWorkspace ELSE stack[Len(stack)]

\* what handleUndo installs: the popped snapshot, or nothing when none exists
UndoTarget(stack) == IF stack = <<>> THEN Workspace ELSE stack[Len(stack)]

HandleUndo ==
  /\ Interactive
  /\ LET prev == UndoTarget(undoStack)
         rest == IF undoStack = <<>> THEN <<>> ELSE SubSeq(undoStack, 1, Len(undoStack) - 1)
     IN /\ documents' = prev.documents
        /\ documentOrder' = prev.documentOrder
        /\ pages' = prev.pages
        /\ undoStack' = rest
        /\ canUndo' = IF undoStack = <<>> THEN canUndo ELSE Len(rest) > 0
        /\ last' = Step("undo", IF undoStack = <<>> THEN "noop" ELSE "ok")
  /\ ops' = ops + 1
  /\ UNCHANGED <<trail, asm, call, isProcessing, isBlockingOverlay, jobs, nextDoc>>

\* ---------------------------------------------------------- handleReorder
\* next.splice(sourceIndex, 1) then next.splice(destinationIndex, 0, moved)
MovePage(ps, src, dst) ==
  LET removed == SubSeq(ps, 1, src - 1) \o SubSeq(ps, src + 1, Len(ps))
  IN SubSeq(removed, 1, dst - 1) \o <<ps[src]>> \o SubSeq(removed, dst, Len(removed))

HandleReorder(src, dst) ==
  /\ Interactive
  /\ src \in 1..Len(pages) /\ dst \in 1..Len(pages) /\ src # dst
  /\ undoStack' = PushSnapshot(undoStack)
  /\ canUndo' = TRUE
  /\ pages' = MovePage(pages, src, dst)
  /\ documentOrder' = UniqueInOrder(PageDocIds(pages'))
  /\ last' = Step("reorder", "ok")
  /\ ops' = ops + 1
  /\ UNCHANGED <<trail, asm, call, documents, isProcessing, isBlockingOverlay, jobs, nextDoc>>

\* ----------------------------------------------------------- handleRotate
\* the rotation without the wrap to 0..359
OptimisticRotationNoWrap(previousRotation, direction) ==
  previousRotation + (IF direction = "clockwise" THEN 90 ELSE -90)

\* the rotation with the direction ignored: every turn is clockwise
OptimisticRotationOneWay(previousRotation, direction) ==
  (previousRotation + 90 + 360) % 360

OptimisticRotation(previousRotation, direction) ==
  LET delta == IF direction = "clockwise" THEN 90 ELSE -90
  IN (previousRotation + delta + 360) % 360

\* the body of handleRotate for the page at position i
Rotate(i, direction) ==
  /\ i \in 1..Len(pages)
  /\ pages[i].documentId \in DOMAIN documents
  /\ undoStack' = PushSnapshot(undoStack)
  /\ canUndo' = TRUE
  /\ pages' = [pages EXCEPT ![i].rotation = OptimisticRotation(pages[i].rotation, direction)]
  /\ last' = Step("rotate", "ok")
  /\ UNCHANGED <<asm, call, documents, documentOrder, isProcessing, isBlockingOverlay, jobs, nextDoc>>

HandleRotate(i, direction) ==
  /\ Interactive
  /\ Rotate(i, direction)
  /\ ops' = ops + 1
  /\ UNCHANGED trail

\* ----------------------------------------------------------- handleDelete
\* the test of the pruning loop inverted: the documents still in use are dropped
PruneDocumentsInverted(docs, remainingDocIds) ==
  [d \in (DOMAIN docs) \ remainingDocIds |-> docs[d]]

\* the documents handleDelete keeps: those a remaining page refers to
PruneDocuments(docs, remainingDocIds) ==
  [d \in (DOMAIN docs) \cap remainingDocIds |-> docs[d]]

HandleDelete(i) ==
  /\ Interactive
  /\ i \in 1..Len(pages)
  /\ LET next == SelectSeq(pages, LAMBDA p : p.id # pages[i].id)
         remainingDocIds == Range(PageDocIds(next))
     IN /\ pages' = next
        /\ documents' = PruneDocuments(documents, remainingDocIds)
        /\ documentOrder' = SelectSeq(documentOrder, LAMBDA d : d \in remainingDocIds)
  /\ undoStack' = PushSnapshot(undoStack)
  /\ canUndo' = TRUE
  /\ last' = Step("delete", "ok")
  /\ ops' = ops + 1
  /\ UNCHANGED <<trail, asm, call, isProcessing, isBlockingOverlay, jobs, nextDoc>>

\* --------------------------------------------------------- resetWorkspace
ResetWorkspace ==
  /\ Interactive
  /\ undoStack' = PushSnapshot(undoStack)
  /\ canUndo' = TRUE
  /\ documents' = NoDocuments
  /\ documentOrder' = <<>>
  /\ pages' = <<>>
  /\ last' = Step("reset", "ok")
  /\ ops' = ops + 1
  /\ UNCHANGED <<trail, asm, call, isProcessing, isBlockingOverlay, jobs, nextDoc>>

\* --------------------------------------------------- assemblePdfFromPages
Presets == {"none", "high", "balanced", "compact", "very_compact", "ultra_compact"}

\* what the pdf libraries report for one source page
\*   readable, intrinsic: whether reading the page's own /Rotate angle succeeds, and it
\*   copy: "error" when the single-page copy or its save throws, "invalid" when the
\*         render inside validatePdfRenderable throws, else "ok"
\*   render: whether renderPageBitmap succeeds
\*   canvas, nonWhite: the pixels of the thumbnail validatePdfRenderable draws, and
\*         how many of them are not white
PageFacts == [readable : BOOLEAN, intrinsic : {0, 90}, copy : {"ok", "invalid", "error"},
              render : {"ok", "fail"}, canvas : Nat, nonWhite : Nat]

GoodFacts == [readable |-> TRUE, intrinsic |-> 0, copy |-> "ok", render |-> "ok",
              canvas |-> 40 * 51, nonWhite |-> 200]

\* validatePdfRenderable in a browser: more than 0.5% of the pixels not white ends
\* the scan with true, else any pixel not white does; a failed render gives false
validatePdfRenderable(facts) ==
  IF facts.copy = "invalid" THEN FALSE
  ELSE IF facts.nonWhite * 1000 > facts.canvas * 5 THEN TRUE
  ELSE facts.nonWhite > 0

requiresRaster(pageList, docs, preset) ==
  \/ (preset # "none" /\ preset # "vector_compat")
  \/ \E i \in 1..Len(pageList) :
       /\ pageList[i].documentId \in DOMAIN docs
       /\ docs[pageList[i].documentId].encrypted

\* the outcome of one pass of a loop: continue, throw, or one page added; tried
\* says whether a structural copy of the page was attempted on the way
Skipped == [kind |-> "skip", src |-> <<>>, how |-> "", rotation |-> 0, tried |-> FALSE]
Thrown == [kind |-> "throw", src |-> <<>>, how |-> "", rotation |-> 0, tried |-> FALSE]
Added(p, how, bakeRotation) ==
  [kind |-> "page", src |-> p.id, how |-> how,
   rotation |-> IF bakeRotation THEN p.rotation ELSE 0, tried |-> FALSE]

\* one pass of the raster loop
RasterLoopPage(p, docs, bakeRotation, facts) ==
  IF p.documentId \notin DOMAIN docs THEN Skipped
  ELSE IF facts.render = "fail" THEN Thrown
  ELSE Added(p, "raster", bakeRotation)

rasterizePageInto(p, docs, bakeRotation, facts) ==
  IF p.documentId \notin DOMAIN docs THEN Skipped
  ELSE IF facts.render = "fail" THEN Thrown
  ELSE Added(p, "raster", bakeRotation)

\* the try block of the vector loop: the single-page copy, its validation, and
\* the fallback of the else branch and of the catch
StructuralCopy(p, docs, bakeRotation, facts) ==
  LET r == IF facts.copy # "error" /\ validatePdfRenderable(facts)
             THEN Added(p, "copy", bakeRotation)
           ELSE rasterizePageInto(p, docs, bakeRotation, facts)
  IN [r EXCEPT !.tried = TRUE]

\* the vector loop looking at the UI rotation only
VectorLoopPageUiRotationOnly(p, docs, bakeRotation, facts) ==
  IF p.documentId \notin DOMAIN docs THEN Skipped
  ELSE IF docs[p.documentId].encrypted THEN rasterizePageInto(p, docs, bakeRotation, facts)
  ELSE IF bakeRotation /\ p.rotation % 360 # 0
    THEN rasterizePageInto(p, docs, bakeRotation, facts)
  ELSE StructuralCopy(p, docs, bakeRotation, facts)

\* one pass of the vector loop
VectorLoopPage(p, docs, bakeRotation, facts) ==
  IF p.documentId \notin DOMAIN docs THEN Skipped
  ELSE IF docs[p.documentId].encrypted THEN rasterizePageInto(p, docs, bakeRotation, facts)
  ELSE IF bakeRotation /\ (~facts.readable
                           \/ facts.intrinsic % 360 # 0 \/ p.rotation % 360 # 0)
    THEN rasterizePageInto(p, docs, bakeRotation, facts)
  ELSE StructuralCopy(p, docs, bakeRotation, facts)

\* the blank page save() adds to a document that has no page
DefaultPage ==
  [kind |-> "page", src |-> <<>>, how |-> "blank", rotation |-> 0, tried |-> FALSE]

\* the pages of the bytes save() returns
Saved(acc) == IF acc = <<>> THEN <<DefaultPage>> ELSE acc

RECURSIVE AssembleLoop(_, _, _, _, _, _, _)
\* the for loop over pageList and the save: the pages added so far are in acc, the
\* pages a structural copy was attempted for in tried
AssembleLoop(pageList, docs, raster, bakeRotation, env, acc, tried) ==
  IF pageList = <<>> THEN [ok |-> TRUE, out |-> Saved(acc), tried |-> tried]
  ELSE LET p == Head(pageList)
           r == IF raster THEN RasterLoopPage(p, docs, bakeRotation, env[p.id])
                ELSE VectorLoopPage(p, docs, bakeRotation, env[p.id])
           t == IF r.tried THEN Append(tried, p.id) ELSE tried
       IN IF r.kind = "throw" THEN [ok |-> FALSE, out |-> <<>>, tried |-> t]
          ELSE AssembleLoop(Tail(pageList), docs, raster, bakeRotation, env,
                            IF r.kind = "skip" THEN acc ELSE Append(acc, r), t)

\* assemblePdfFromPages without its test of the list's length
assemblePdfFromPagesNoGuard(pageList, docs, preset, bakeRotation, env) ==
  AssembleLoop(pageList, docs, requiresRaster(pageList, docs, preset),
               bakeRotation, env, <<>>, <<>>)

\* [ok |-> FALSE] when the call throws, else the pages of the saved document
assemblePdfFromPages(pageList, docs, preset, bakeRotation, env) ==
  IF Len(pageList) = 0 THEN [ok |-> FALSE, out |-> <<>>, tried |-> <<>>]
  ELSE AssembleLoop(pageList, docs, requiresRaster(pageList, docs, preset),
                    bakeRotation, env, <<>>, <<>>)

\* the same facts for every page of a list
UniformEnv(pageList, facts) == [id \in {pageList[i].id : i \in 1..Len(pageList)} |-> facts]

\* ---------------------------------------------------------- handlePdfLoad
\* an async handler in flight: the state it closed over, the document ids it
\* will use and its argument
Job(kind, ids, arg) == [kind |-> kind, pre |-> Workspace, ids |-> ids, arg |-> arg]

FreshIds(n) == [k \in 1..n |-> DocId(nextDoc + k)]

RemoveAt(s, j) == SubSeq(s, 1, j - 1) \o SubSeq(s, j + 1, Len(s))

\* an optional field: undefined, or defined with a value
Undefined == <<>>
Defined(v) == <<v>>

\* text as a sequence of characters
BlankText == <<" ">>
SomeText == <<"a", "b">>

RECURSIVE Trim(_)
Trim(txt) ==
  IF txt = <<>> THEN <<>>
  ELSE IF Head(txt) = " " THEN Trim(Tail(txt))
  ELSE IF txt[Len(txt)] = " " THEN Trim(SubSeq(txt, 1, Len(txt) - 1))
  ELSE txt

\* page records that keep the extracted text whether or not it has content
LoadedPagesKeepingText(docId, pageCount, txt) ==
  LET hasText == Trim(txt) # <<>>
  IN [k \in 1..pageCount |->
        [id |-> <<docId, k - 1>>, documentId |-> docId, pageIndex |-> k - 1,
         rotation |-> 0, hasText |-> hasText,
         textSource |-> IF hasText THEN "native" ELSE "none",
         text |-> txt,
         ocrWords |-> Undefined, ocrImageSize |-> Undefined]]

\* the page records handlePdfLoad creates for one document
LoadedPages(docId, pageCount, txt) ==
  LET hasText == Trim(txt) # <<>>
  IN [k \in 1..pageCount |->
        [id |-> <<docId, k - 1>>, documentId |-> docId, pageIndex |-> k - 1,
         rotation |-> 0, hasText |-> hasText,
         textSource |-> IF hasText THEN "native" ELSE "none",
         text |-> IF hasText THEN txt ELSE <<>>,
         ocrWords |-> Undefined, ocrImageSize |-> Undefined]]

\* what inspecting one file yields: it is skipped, or it reports its pages
FileOutcome(skip, pageCount, encrypted, txt) ==
  [skip |-> skip, pageCount |-> pageCount, encrypted |-> encrypted, txt |-> txt]

FileOutcomes ==
  { FileOutcome(TRUE, 0, FALSE, <<>>),          \* password refused or file unreadable
    FileOutcome(FALSE, 0, FALSE, <<>>),         \* a document that reports no pages
    FileOutcome(FALSE, 2, FALSE, BlankText),    \* two scanned pages
    FileOutcome(FALSE, 1, TRUE, SomeText) }     \* an encrypted document, password accepted

\* the numbers of files one load is given
FileCounts == {1}

RECURSIVE LoadLoop(_, _, _)
\* the loop over the loaded files: file k gets ids[k] and meets outcomes[k]
LoadLoop(ids, outcomes, acc) ==
  IF ids = <<>> THEN acc
  ELSE LET docId == Head(ids)
           o == Head(outcomes)
           entry == [pageCount |-> o.pageCount, encrypted |-> o.encrypted]
       IN LoadLoop(Tail(ids), Tail(outcomes),
            IF o.skip THEN acc
            ELSE [newDocuments |-> (docId :> entry) @@ acc.newDocuments,
                  newOrder |-> Append(acc.newOrder, docId),
                  newPages |-> acc.newPages \o LoadedPages(docId, o.pageCount, o.txt)])

NothingLoaded == [newDocuments |-> NoDocuments, newOrder |-> <<>>, newPages |-> <<>>]

LoadBegin(n) ==
  /\ Interactive
  /\ n \in FileCounts
  /\ nextDoc + n <= MaxDocs
  /\ isProcessing' = TRUE
  /\ LET hadContent == Len(pages) > 0 \/ Len(documentOrder) > 0
     IN /\ undoStack' = IF hadContent THEN PushSnapshot(undoStack) ELSE undoStack
        /\ canUndo' = IF hadContent THEN TRUE ELSE canUndo
  /\ jobs' = Append(jobs, Job("load", FreshIds(n), ""))
  /\ nextDoc' = nextDoc + n
  /\ last' = Step("loadBegin", "ok")
  /\ ops' = ops + 1
  /\ UNCHANGED <<trail, asm, call, documents, documentOrder, pages, isBlockingOverlay>>

\* the rest of handlePdfLoad: the files are inspected (this reads and writes no
\* state of the App) and the three collections are extended
LoadComplete(j, outcomes) ==
  /\ j \in 1..Len(jobs)
  /\ jobs[j].kind = "load"
  /\ outcomes \in [1..Len(jobs[j].ids) -> FileOutcomes]
  /\ LET job == jobs[j]
         new == LoadLoop(job.ids, outcomes, NothingLoaded)
     IN /\ documents' = new.newDocuments @@ documents
        /\ documentOrder' = documentOrder \o new.newOrder
        /\ pages' = pages \o new.newPages
        /\ last' = [op |-> "load",
                    result |-> IF new.newOrder = <<>> THEN "noop" ELSE "ok",
                    pre |-> job.pre,
                    first |-> job.ids[1] = DocId(1) /\ Workspace = EmptyWorkspace]
  /\ isProcessing' = FALSE
  /\ isBlockingOverlay' = FALSE
  /\ jobs' = RemoveAt(jobs, j)
  /\ UNCHANGED <<trail, asm, call, undoStack, canUndo, nextDoc, ops>>

\* ------------------------------------------------------------ handleMerge
\* the toolbar buttons are disabled without pages and while isProcessing
ToolbarEnabled == Interactive /\ hasWorkspaceContent /\ ~isProcessing

\* a derived page record that starts upright instead of keeping the turn of src
CarriedPageUpright(docId, index, src) ==
  [id |-> <<docId, index>>, documentId |-> docId, pageIndex |-> index,
   rotation |-> 0, hasText |-> src.hasText, textSource |-> src.textSource,
   text |-> IF src.hasText THEN src.text ELSE <<>>,
   ocrWords |-> IF src.textSource = "ocr" THEN src.ocrWords ELSE Undefined,
   ocrImageSize |-> IF src.textSource = "ocr" THEN src.ocrImageSize ELSE Undefined]

\* the page record merge and split derive from the page src of the old list
CarriedPage(docId, index, src) ==
  [id |-> <<docId, index>>, documentId |-> docId, pageIndex |-> index,
   rotation |-> src.rotation, hasText |-> src.hasText, textSource |-> src.textSource,
   text |-> IF src.hasText THEN src.text ELSE <<>>,
   ocrWords |-> IF src.textSource = "ocr" THEN src.ocrWords ELSE Undefined,
   ocrImageSize |-> IF src.textSource = "ocr" THEN src.ocrImageSize ELSE Undefined]

\* the page record for an index the old list does not have (src undefined)
BlankPage(docId, index) ==
  [id |-> <<docId, index>>, documentId |-> docId, pageIndex |-> index,
   rotation |-> 0, hasText |-> FALSE, textSource |-> "none", text |-> <<>>,
   ocrWords |-> Undefined, ocrImageSize |-> Undefined]

DerivedPages(docId, pageCount, srcList) ==
  [k \in 1..pageCount |->
     IF k <= Len(srcList) THEN CarriedPage(docId, k - 1, srcList[k])
     ELSE BlankPage(docId, k - 1)]

\* the library outcomes a merge or split run may meet, the same for every page
RunFacts == {GoodFacts, [GoodFacts EXCEPT !.copy = "invalid"],
             [GoodFacts EXCEPT !.copy = "invalid", !.render = "fail"]}

Finish(j) ==
  /\ isProcessing' = FALSE
  /\ isBlockingOverlay' = FALSE
  /\ jobs' = RemoveAt(jobs, j)

MergeBegin ==
  /\ ToolbarEnabled
  /\ nextDoc + 1 <= MaxDocs
  /\ isProcessing' = TRUE
  /\ isBlockingOverlay' = TRUE
  /\ undoStack' = PushSnapshot(undoStack)
  /\ canUndo' = TRUE
  /\ jobs' = Append(jobs, Job("merge", FreshIds(1), ""))
  /\ nextDoc' = nextDoc + 1
  /\ last' = Step("mergeBegin", "ok")
  /\ ops' = ops + 1
  /\ UNCHANGED <<trail, asm, call, documents, documentOrder, pages>>

MergeComplete(j, facts) ==
  /\ j \in 1..Len(jobs)
  /\ jobs[j].kind = "merge"
  /\ LET job == jobs[j]
         merged == assemblePdfFromPages(job.pre.pages, job.pre.documents, "none", FALSE,
                                        UniformEnv(job.pre.pages, facts))
         docId == job.ids[1]
         pageCount == Len(merged.out)
     IN IF merged.ok
        THEN /\ documents' = (docId :> [pageCount |-> pageCount, encrypted |-> FALSE])
             /\ documentOrder' = <<docId>>
             /\ pages' = DerivedPages(docId, pageCount, job.pre.pages)
             /\ last' = [op |-> "merge", result |-> "ok", pre |-> job.pre, first |-> FALSE]
        ELSE /\ UNCHANGED <<documents, documentOrder, pages>>
             /\ last' = [op |-> "merge", result |-> "error", pre |-> job.pre, first |-> FALSE]
  /\ Finish(j)
  /\ UNCHANGED <<trail, asm, call, undoStack, canUndo, nextDoc, ops>>

\* -------------------------------------------------------------- page ranges
PageRange(start, end) == [start |-> start, end |-> end]

\* the bounds check of splitPDF
RangeInBounds(r, total) == ~(r.start < 1 \/ r.end < r.start \/ r.end > total)

RangesValid(ranges, total) == \A k \in 1..Len(ranges) : RangeInBounds(ranges[k], total)

\* --------------------------------------------------------- parsePageRanges
\* Text is a sequence of one-character strings.
Digits == {"0", "1", "2", "3", "4", "5", "6", "7", "8", "9"}

DigitValue(c) ==
  CASE c = "0" -> 0 [] c = "1" -> 1 [] c = "2" -> 2 [] c = "3" -> 3 [] c = "4" -> 4
    [] c = "5" -> 5 [] c = "6" -> 6 [] c = "7" -> 7 [] c = "8" -> 8 [] c = "9" -> 9

\* value.replace(/\s+/g, '')
Sanitize(text) == SelectSeq(text, LAMBDA c : c # " ")

RECURSIVE SplitOn(_, _, _, _)
\* String.prototype.split on a one-character separator: cur is the piece being read
SplitOn(text, sep, cur, acc) ==
  IF text = <<>> THEN Append(acc, cur)
  ELSE IF Head(text) = sep THEN SplitOn(Tail(text), sep, <<>>, Append(acc, cur))
  ELSE SplitOn(Tail(text), sep, Append(cur, Head(text)), acc)

Split(text, sep) == SplitOn(text, sep, <<>>, <<>>)

\* NaN of Number.parseInt; the numbers parsed here are never negative
NaN == -1

RECURSIVE LeadingDigits(_, _)
\* the value of the longest prefix of digits, NaN when there is none
LeadingDigits(text, acc) ==
  IF text = <<>> \/ Head(text) \notin Digits THEN acc
  ELSE LeadingDigits(Tail(text), (IF acc = NaN THEN 0 ELSE acc) * 10 + DigitValue(Head(text)))

\* Number.parseInt(text, 10) for a text without blanks: an optional sign, then
\* digits as far as they go; what follows the digits is ignored
ParseInt(text) ==
  IF text # <<>> /\ Head(text) = "+" THEN LeadingDigits(Tail(text), NaN)
  ELSE LeadingDigits(text, NaN)

ParseFailure(segment) == [ok |-> FALSE, ranges |-> <<>>, segment |-> segment]

\* the callback without its branch for pairs: every segment is read as one number
ParseSegmentAsNumber(segment, totalPages) ==
  LET page == ParseInt(segment)
  IN IF page = NaN \/ page < 1 \/ page > totalPages THEN ParseFailure(segment)
     ELSE [ok |-> TRUE, ranges |-> <<PageRange(page, page)>>, segment |-> segment]

\* the callback of segments.map: the range of one segment, or the throw
ParseSegment(segment, totalPages) ==
  IF "-" \in Range(segment)
  THEN LET parts == Split(segment, "-")
           start == ParseInt(parts[1])
           end == ParseInt(parts[2])
       IN IF start = NaN \/ end = NaN THEN ParseFailure(segment)
          ELSE IF start < 1 \/ end < start \/ end > totalPages THEN ParseFailure(segment)
          ELSE [ok |-> TRUE, ranges |-> <<PageRange(start, end)>>, segment |-> segment]
  ELSE LET page == ParseInt(segment)
       IN IF page = NaN \/ page < 1 \/ page > totalPages THEN ParseFailure(segment)
          ELSE [ok |-> TRUE, ranges |-> <<PageRange(page, page)>>, segment |-> segment]

RECURSIVE ParseSegments(_, _, _)
\* segments.map: the first segment that throws ends the call
ParseSegments(segments, totalPages, acc) ==
  IF segments = <<>> THEN [ok |-> TRUE, ranges |-> acc, segment |-> <<>>]
  ELSE LET r == ParseSegment(Head(segments), totalPages)
       IN IF ~r.ok THEN r
          ELSE ParseSegments(Tail(segments), totalPages, acc \o r.ranges)

parsePageRanges(value, totalPages) ==
  LET sanitized == Sanitize(value)
  IN IF sanitized = <<>> THEN ParseFailure(<<>>)
     ELSE ParseSegments(Split(sanitized, ","), totalPages, <<>>)

\* ----------------------------------------------------------------- splitPDF
SplitFailure == [ok |-> FALSE, chunks |-> <<>>]

\* the pages of one chunk: indices start - 1 .. end - 1 of the source, in order
ChunkPages(srcPages, r) == [k \in 1..(r.end - r.start + 1) |-> srcPages[r.start - 1 + k]]

\* splitPDF with a range check that drops a bad range instead of throwing
splitPDFSkippingBadRanges(srcPages, ranges) ==
  IF Len(ranges) = 0 THEN SplitFailure
  ELSE LET good == SelectSeq(ranges, LAMBDA r : RangeInBounds(r, Len(srcPages)))
       IN [ok |-> TRUE, chunks |-> [k \in 1..Len(good) |-> ChunkPages(srcPages, good[k])]]

\* splitPDF with the chunks in the order the ranges end in
splitPDFLastFirst(srcPages, ranges) ==
  IF Len(ranges) = 0 \/ ~RangesValid(ranges, Len(srcPages)) THEN SplitFailure
  ELSE [ok |-> TRUE,
        chunks |-> [k \in 1..Len(ranges) |->
                      ChunkPages(srcPages, ranges[Len(ranges) + 1 - k])]]

\* splitPDF on a document given by its pages: Promise.all rejects when the
\* callback of any range throws, else it keeps the chunks in the order of the ranges
splitPDF(srcPages, ranges) ==
  IF Len(ranges) = 0 THEN SplitFailure
  ELSE IF ~RangesValid(ranges, Len(srcPages)) THEN SplitFailure
  ELSE [ok |-> TRUE, chunks |-> [k \in 1..Len(ranges) |-> ChunkPages(srcPages, ranges[k])]]

\* ----------------------------------------------- handleSplit, confirmSplit
\* the digit that writes n, for n up to 9
DigitOf(n) == CHOOSE c \in Digits : DigitValue(c) = n

\* the range texts typed into the dialog for a list of total pages
SplitTexts(total) ==
  { <<"*">>,
    <<" ", "*">>,
    <<"1", "-", DigitOf(total)>>,
    <<DigitOf(total), ",", "1">>,
    <<"2", "-", "1">> }

\* the star expanded as though the pages were counted from 0
SplitRangesFromZero(rangeText, total) ==
  IF Trim(rangeText) = <<"*">>
  THEN [ok |-> TRUE, ranges |-> [k \in 1..total |-> PageRange(k - 1, k - 1)], segment |-> <<>>]
  ELSE parsePageRanges(rangeText, total)

\* the ranges confirmSplit works with, or the throw of parsePageRanges
SplitRanges(rangeText, total) ==
  IF Trim(rangeText) = <<"*">>
  THEN [ok |-> TRUE, ranges |-> [k \in 1..total |-> PageRange(k, k)], segment |-> <<>>]
  ELSE parsePageRanges(rangeText, total)

RECURSIVE SplitLoop(_, _, _, _, _)
\* the loop over the chunks: chunk k becomes document ids[k]
SplitLoop(ids, ranges, chunks, srcPages, acc) ==
  IF chunks = <<>> THEN acc
  ELSE LET docId == Head(ids)
           r == Head(ranges)
           pageCount == Len(Head(chunks))
           srcList == SubSeq(srcPages, r.start, r.end)
       IN SplitLoop(Tail(ids), Tail(ranges), Tail(chunks), srcPages,
            [newDocuments |-> (docId :> [pageCount |-> pageCount, encrypted |-> FALSE])
                              @@ acc.newDocuments,
             newOrder |-> Append(acc.newOrder, docId),
             newPages |-> acc.newPages \o DerivedPages(docId, pageCount, srcList)])

\* confirmSplit up to its first await; a range text that does not parse ends it
SplitBegin(rangeText) ==
  /\ ToolbarEnabled
  /\ rangeText \in SplitTexts(Len(pages))
  /\ undoStack' = PushSnapshot(undoStack)
  /\ canUndo' = TRUE
  /\ LET parsed == SplitRanges(rangeText, Len(pages))
     IN IF parsed.ok
        THEN /\ nextDoc + Len(parsed.ranges) <= MaxDocs
             /\ isProcessing' = TRUE
             /\ isBlockingOverlay' = TRUE
             /\ jobs' = Append(jobs, Job("split", FreshIds(Len(parsed.ranges)),
                                         [text |-> rangeText, ranges |-> parsed.ranges]))
             /\ nextDoc' = nextDoc + Len(parsed.ranges)
             /\ last' = Step("splitBegin", "ok")
        ELSE /\ isProcessing' = FALSE
             /\ isBlockingOverlay' = FALSE
             /\ last' = Step("split", "error")
             /\ UNCHANGED <<jobs, nextDoc>>
  /\ ops' = ops + 1
  /\ UNCHANGED <<trail, asm, call, documents, documentOrder, pages>>

SplitComplete(j, facts) ==
  /\ j \in 1..Len(jobs)
  /\ jobs[j].kind = "split"
  /\ LET job == jobs[j]
         base == assemblePdfFromPages(job.pre.pages, job.pre.documents, "none", FALSE,
                                      UniformEnv(job.pre.pages, facts))
         ranges == job.arg.ranges
         splitChunks == IF base.ok THEN splitPDF(base.out, ranges) ELSE SplitFailure
         new == SplitLoop(job.ids, ranges, splitChunks.chunks, job.pre.pages, NothingLoaded)
     IN IF splitChunks.ok
        THEN /\ documents' = new.newDocuments
             /\ documentOrder' = new.newOrder
             /\ pages' = new.newPages
             /\ last' = [op |-> "split", result |-> "ok", pre |-> job.pre, first |-> FALSE,
                         text |-> job.arg.text]
        ELSE /\ UNCHANGED <<documents, documentOrder, pages>>
             /\ last' = [op |-> "split", result |-> "error", pre |-> job.pre, first |-> FALSE,
                         text |-> job.arg.text]
  /\ Finish(j)
  /\ UNCHANGED <<trail, asm, call, undoStack, canUndo, nextDoc, ops>>

\* ----------------------------------------------------------- handleRunOcr
\* the words recognized in a page that has some: text and box of each
OcrWords == <<[text |-> <<"x">>, x |-> 1, y |-> 1, width |-> 2, height |-> 1],
              [text |-> <<"y">>, x |-> 4, y |-> 1, width |-> 2, height |-> 1]>>

\* the pixel size of the bitmap the words were recognized in
BitmapSize == [w |-> 8, h |-> 3]

RECURSIVE Join(_, _)
\* parts.join(' ')
Join(parts, acc) ==
  IF parts = <<>> THEN acc
  ELSE Join(Tail(parts), IF acc = <<>> THEN Head(parts) ELSE acc \o <<" ">> \o Head(parts))

\* the text recognized: the texts of the words, a blank between them
Recognized(words) == Trim(Join([k \in 1..Len(words) |-> words[k].text], <<>>))

OcrText == Recognized(OcrWords)

\* the pages a run recognizes: those it does not skip
OcrTargets(ps, docs, mode) ==
  {k \in 1..Len(ps) : /\ ps[k].documentId \in DOMAIN docs
                      /\ ~(mode = "smart" /\ ps[k].hasText)}

\* the update without the new tag: the recognized text is stored, textSource is kept
OcrAppliedWithoutRetag(p, textByDocument, ocrMap) ==
  LET key == <<p.documentId, p.pageIndex>>
  IN IF key \in DOMAIN textByDocument /\ Trim(textByDocument[key]) # <<>>
     THEN [p EXCEPT !.hasText = TRUE, !.text = textByDocument[key],
                    !.ocrWords = Defined(ocrMap[key].words),
                    !.ocrImageSize = Defined([w |-> ocrMap[key].w, h |-> ocrMap[key].h])]
     ELSE p

\* the update that stores text and tag and leaves the words and the size for later
OcrAppliedTextFirst(p, textByDocument, ocrMap) ==
  LET key == <<p.documentId, p.pageIndex>>
  IN IF key \in DOMAIN textByDocument /\ Trim(textByDocument[key]) # <<>>
     THEN [p EXCEPT !.hasText = TRUE, !.textSource = "ocr", !.text = textByDocument[key]]
     ELSE p

\* the update a finished run applies to one page of the current list
OcrApplied(p, textByDocument, ocrMap) ==
  LET key == <<p.documentId, p.pageIndex>>
  IN IF key \in DOMAIN textByDocument /\ Trim(textByDocument[key]) # <<>>
     THEN [p EXCEPT !.hasText = TRUE, !.textSource = "ocr", !.text = textByDocument[key],
                    !.ocrWords = Defined(ocrMap[key].words),
                    !.ocrImageSize = Defined([w |-> ocrMap[key].w, h |-> ocrMap[key].h])]
     ELSE p

\* the toolbar button (mode smart) or the two buttons of the tools panel, which
\* are shown while some page has no text and are not disabled by isProcessing
OcrBegin(mode) ==
  /\ Interactive
  /\ hasWorkspaceContent
  /\ \/ ~isProcessing /\ mode = "smart"
     \/ \E k \in 1..Len(pages) : ~pages[k].hasText
  /\ isProcessing' = TRUE
  /\ isBlockingOverlay' = TRUE
  /\ undoStack' = PushSnapshot(undoStack)
  /\ canUndo' = TRUE
  /\ jobs' = Append(jobs, Job("ocr", <<>>, mode))
  /\ last' = Step("ocrBegin", "ok")
  /\ ops' = ops + 1
  /\ UNCHANGED <<trail, asm, call, documents, documentOrder, pages, nextDoc>>

\* outcome: "fail" (a render or recognition call throws), "empty" (no word is
\* recognized in any page), "words" (words in every page) or "first" (words in the
\* first page recognized, none in the others)
OcrComplete(j, outcome) ==
  /\ j \in 1..Len(jobs)
  /\ jobs[j].kind = "ocr"
  /\ LET job == jobs[j]
         targets == OcrTargets(job.pre.pages, job.pre.documents, job.arg)
         keyOf(k) == <<job.pre.pages[k].documentId, job.pre.pages[k].pageIndex>>
         keys == {keyOf(k) : k \in targets}
         \* the entry a key is left with is the one of the last page that set it
         lastOf(key) == CHOOSE k \in targets :
                          keyOf(k) = key /\ \A m \in targets : keyOf(m) = key => m <= k
         wordsOf(k) == IF outcome = "words" \/ (outcome = "first" /\ \A m \in targets : k <= m)
                       THEN OcrWords ELSE <<>>
         textByDocument == [key \in keys |-> Recognized(wordsOf(lastOf(key)))]
         ocrMap == [key \in keys |->
                      [words |-> wordsOf(lastOf(key)), w |-> BitmapSize.w, h |-> BitmapSize.h]]
     IN IF targets # {} /\ outcome = "fail"
        THEN /\ UNCHANGED pages
             /\ last' = [op |-> "ocr", result |-> "error", pre |-> job.pre, first |-> FALSE]
        ELSE /\ pages' = [k \in 1..Len(pages) |-> OcrApplied(pages[k], textByDocument, ocrMap)]
             /\ last' = [op |-> "ocr", result |-> IF pages' = pages THEN "noop" ELSE "ok",
                         pre |-> job.pre, first |-> FALSE]
  /\ Finish(j)
  /\ UNCHANGED <<trail, asm, call, documents, documentOrder, undoStack, canUndo, nextDoc, ops>>

Next ==
  \/ HandleUndo
  \/ \E src, dst \in 1..MaxPages : HandleReorder(src, dst)
  \/ \E i \in 1..MaxPages, direction \in {"clockwise", "counterclockwise"} :
       HandleRotate(i, direction)
  \/ \E i \in 1..MaxPages : HandleDelete(i)
  \/ ResetWorkspace
  \/ \E n \in FileCounts : LoadBegin(n)
  \/ \E j \in 1..MaxOps :
       \E outcomes \in UNION {[1..n -> FileOutcomes] : n \in FileCounts} :
         LoadComplete(j, outcomes)
  \/ MergeBegin
  \/ \E j \in 1..MaxOps, facts \in RunFacts : MergeComplete(j, facts)
  \/ \E rangeText \in SplitTexts(Len(pages)) : SplitBegin(rangeText)
  \/ \E j \in 1..MaxOps, facts \in RunFacts : SplitComplete(j, facts)
  \/ \E mode \in {"smart", "all"} : OcrBegin(mode)
  \/ \E j \in 1..MaxOps, outcome \in {"fail", "empty", "words", "first"} : OcrComplete(j, outcome)

Spec == Init /\ [][Next]_vars

\* ----------------------------------------------- rotations of a loaded file
\* the number of rotations followed
MaxTurns == 6

\* the files a first load can bring in with at least one page
LoadableFiles == {o \in FileOutcomes : ~o.skip /\ o.pageCount > 0}

\* the workspace right after the first load of one file
InitRotate ==
  \E o \in LoadableFiles :
    LET new == LoadLoop(<<DocId(1)>>, <<o>>, NothingLoaded)
    IN /\ documents = new.newDocuments
       /\ documentOrder = new.newOrder
       /\ pages = new.newPages
       /\ undoStack = <<>>
       /\ canUndo = FALSE
       /\ isProcessing = FALSE
       /\ isBlockingOverlay = FALSE
       /\ jobs = <<>>
       /\ nextDoc = 1
       /\ ops = 1
       /\ last = [op |-> "load", result |-> "ok", pre |-> EmptyWorkspace, first |-> TRUE]
       /\ trail = <<>>
       /\ asm = NoCall
       /\ call = NoPureCall
  /\ call = NoPureCall

\* one click on a rotate button of a thumbnail; trail records the page and direction
RotateStep(i, direction) ==
  /\ Len(trail) < MaxTurns
  /\ Rotate(i, direction)
  /\ trail' = Append(trail, <<pages[i].id, direction>>)
  /\ UNCHANGED ops

NextRotate ==
  \E i \in 1..MaxPages, direction \in {"clockwise", "counterclockwise"} :
    RotateStep(i, direction)

SpecRotate == InitRotate /\ [][NextRotate]_vars

\* ------------------------------------------ calls of assemblePdfFromPages
\* the longest page list a call is given
MaxListLen == 2

\* the documents map of the calls: a plain two-page file and an encrypted one
AsmDocuments ==
  (DocId(1) :> [pageCount |-> 2, encrypted |-> FALSE]) @@
  (DocId(2) :> [pageCount |-> 1, encrypted |-> TRUE])

\* pages of these documents, one of them rotated, and a page of a document that
\* the map does not hold
AsmPages ==
  LET a == LoadedPages(DocId(1), 2, SomeText)
      b == LoadedPages(DocId(2), 1, BlankText)
      m == LoadedPages(DocId(3), 1, BlankText)
  IN {a[1], [a[1] EXCEPT !.rotation = 90], a[2], b[1], m[1]}

AsmPageLists == UNION {[1..n -> AsmPages] : n \in 0..MaxListLen}

\* what the libraries may report for a page
AsmFacts ==
  { GoodFacts,
    [GoodFacts EXCEPT !.copy = "invalid"],
    [GoodFacts EXCEPT !.copy = "error"],
    [GoodFacts EXCEPT !.render = "fail"],
    [GoodFacts EXCEPT !.readable = FALSE],
    [GoodFacts EXCEPT !.intrinsic = 90],
    [GoodFacts EXCEPT !.nonWhite = 0],        \* a blank page
    [GoodFacts EXCEPT !.nonWhite = 3] }       \* a page with a few dark pixels

InitAssemble ==
  /\ documents = NoDocuments
  /\ documentOrder = <<>>
  /\ pages = <<>>
  /\ undoStack = <<>>
  /\ canUndo = FALSE
  /\ isProcessing = FALSE
  /\ isBlockingOverlay = FALSE
  /\ jobs = <<>>
  /\ nextDoc = 0
  /\ ops = 0
  /\ last = [op |-> "init", result |-> "ok", pre |-> EmptyWorkspace, first |-> FALSE]
  /\ trail = <<>>
  /\ call = NoPureCall
  /\ \E pageList \in AsmPageLists, preset \in Presets, bakeRotation \in BOOLEAN :
       \E env \in [{pageList[i].id : i \in 1..Len(pageList)} -> AsmFacts] :
         asm = [pageList |-> pageList, docs |-> AsmDocuments, preset |-> preset,
                bakeRotation |-> bakeRotation, env |-> env, done |-> FALSE,
                result |-> [ok |-> FALSE, out |-> <<>>, tried |-> <<>>]]

\* the call runs to its return or its throw
Assemble ==
  /\ ~asm.done
  /\ asm' = [asm EXCEPT !.done = TRUE,
                        !.result = assemblePdfFromPages(asm.pageList, asm.docs, asm.preset,
                                                        asm.bakeRotation, asm.env)]
  /\ UNCHANGED <<documents, documentOrder, pages, undoStack, canUndo, isProcessing,
                 isBlockingOverlay, jobs, nextDoc, ops, last, trail, call>>

NextAssemble == Assemble

SpecAssemble == InitAssemble /\ [][NextAssemble]_vars

\* ------------------------------------------------ the raster resolution
MAX_PIXELS == 10000000
MAX_PIXELS_FALLBACK == 8000000
DefaultDpi == 150
MinDpi == 72

\* settings.dpi of COMPRESSION_PRESETS, 0 where the preset has none
SettingsDpi(preset) ==
  CASE preset = "high" -> 300
    [] preset = "balanced" -> 200
    [] preset = "compact" -> 120
    [] preset = "very_compact" -> 96
    [] preset = "ultra_compact" -> 72
    [] OTHER -> 0

\* settings.dpi ?? 150
ConfiguredDpi(preset) ==
  IF SettingsDpi(preset) = 0 THEN DefaultDpi ELSE SettingsDpi(preset)

\* Page sizes are in units of 36 points (half an inch), which keeps the products
\* below 2^31: a page of w by h units has w * h * dpi * dpi / 4 pixels at dpi.
FourTimesPixels(w, h, dpi) == w * h * dpi * dpi

ExceedsBudget(w, h, dpi, maxPixels) == FourTimesPixels(w, h, dpi) > 4 * maxPixels

\* Math.floor(targetDpi * Math.sqrt(maxPixels / pixels)), in exact arithmetic: the
\* largest d whose pixel count is within maxPixels
ScaledDpi(w, h, dpi, maxPixels) ==
  CHOOSE d \in 0..dpi :
    /\ FourTimesPixels(w, h, d) <= 4 * maxPixels
    /\ FourTimesPixels(w, h, d + 1) > 4 * maxPixels

\* the scaled resolution rounded up instead of down
TargetDpiRoundedUp(w, h, dpi, maxPixels) ==
  IF ExceedsBudget(w, h, dpi, maxPixels)
  THEN LET d == ScaledDpi(w, h, dpi, maxPixels) + 1 IN IF d > MinDpi THEN d ELSE MinDpi
  ELSE dpi

\* the dpi passed to renderPageBitmap
TargetDpi(w, h, dpi, maxPixels) ==
  IF ExceedsBudget(w, h, dpi, maxPixels)
  THEN LET d == ScaledDpi(w, h, dpi, maxPixels) IN IF d > MinDpi THEN d ELSE MinDpi
  ELSE dpi

\* page widths and heights tried, in units of 36 points: from letter (17 x 22, also
\* the size assumed when the page's size cannot be read) to a 75 inch square
PageWidths == {17, 24, 48, 100, 150}
PageHeights == {22, 36, 72, 100, 150}

\* the two places that compute a resolution: the raster loop with the preset's
\* dpi and MAX_PIXELS, rasterizePageInto with 150 and MAX_PIXELS_FALLBACK
RenderPaths ==
  {[dpi |-> ConfiguredDpi(preset), maxPixels |-> MAX_PIXELS] : preset \in Presets}
    \cup {[dpi |-> DefaultDpi, maxPixels |-> MAX_PIXELS_FALLBACK]}

InitDpi ==
  /\ Idle
  /\ \E w \in PageWidths, h \in PageHeights, path \in RenderPaths :
       call = [fn |-> "targetDpi",
               args |-> [w |-> w, h |-> h, dpi |-> path.dpi, maxPixels |-> path.maxPixels],
               done |-> FALSE, result |-> 0]

\* the resolution is computed for one page
ComputeDpi ==
  /\ call.fn = "targetDpi" /\ ~call.done
  /\ call' = [call EXCEPT !.done = TRUE,
                          !.result = TargetDpi(call.args.w, call.args.h, call.args.dpi,
                                               call.args.maxPixels)]
  /\ UNCHANGED <<documents, documentOrder, pages, undoStack, canUndo, isProcessing,
                 isBlockingOverlay, jobs, nextDoc, ops, last, trail, asm>>

NextDpi == ComputeDpi

SpecDpi == InitDpi /\ [][NextDpi]_vars

\* --------------------------------------------------------- calls of splitPDF
\* the largest source document and the longest range list tried
MaxSplitPages == 3
MaxRanges == 2

\* a source document of n pages, each page known by its number
SourcePages(n) == [k \in 1..n |-> k]

\* ranges within and around the pages of a document of n pages
RangesAround(n) == {PageRange(a, b) : a \in 0..(n + 1), b \in 0..(n + 1)}

InitSplit ==
  /\ Idle
  /\ \E n \in 0..MaxSplitPages :
       \E ranges \in UNION {[1..m -> RangesAround(n)] : m \in 0..MaxRanges} :
         call = [fn |-> "splitPDF", args |-> [srcPages |-> SourcePages(n), ranges |-> ranges],
                 done |-> FALSE, result |-> SplitFailure]

\* the call runs to its return or its throw
SplitCall ==
  /\ call.fn = "splitPDF" /\ ~call.done
  /\ call' = [call EXCEPT !.done = TRUE,
                          !.result = splitPDF(call.args.srcPages, call.args.ranges)]
  /\ UNCHANGED <<documents, documentOrder, pages, undoStack, canUndo, isProcessing,
                 isBlockingOverlay, jobs, nextDoc, ops, last, trail, asm>>

NextSplit == SplitCall

SpecSplit == InitSplit /\ [][NextSplit]_vars

\* -------------------------------------------------- calls of parsePageRanges
\* the longest range text tried exhaustively
MaxTextLen == 4

\* the characters of those texts: digits, the two separators, a blank, a letter, a sign
Alphabet == {"1", "2", "3", ",", "-", " ", "x", "+"}

\* longer texts tried: the example of the dialog, a triple, blanks everywhere
LongTexts ==
  { <<"1", "-", "3", ",", "4", ",", "5", "-", "6">>,
    <<"1", "-", "2", "-", "3">>,
    <<" ", "1", " ", "-", " ", "3", " ", ",", " ", "4", " ">>,
    <<"1", "-", "3", ",", "7">> }

RangeTexts == (UNION {[1..n -> Alphabet] : n \in 0..MaxTextLen}) \cup LongTexts

\* the page counts the texts are parsed against
PageTotals == {3, 6, 12}

InitParse ==
  /\ Idle
  /\ \E value \in RangeTexts, totalPages \in PageTotals :
       call = [fn |-> "parsePageRanges",
               args |-> [value |-> value, totalPages |-> totalPages],
               done |-> FALSE, result |-> ParseFailure(<<>>)]

\* the call runs to its return or its throw
Parse ==
  /\ call.fn = "parsePageRanges" /\ ~call.done
  /\ call' = [call EXCEPT !.done = TRUE,
                          !.result = parsePageRanges(call.args.value, call.args.totalPages)]
  /\ UNCHANGED <<documents, documentOrder, pages, undoStack, canUndo, isProcessing,
                 isBlockingOverlay, jobs, nextDoc, ops, last, trail, asm>>

NextParse == Parse

SpecParse == InitParse /\ [][NextParse]_vars

\* ------------------------------------------------------- handleSearchSubmit
\* the characters of context kept on each side of a match
SnippetContext == 40

\* String.prototype.toLowerCase on the characters the texts are made of
LowerChar(c) ==
  CASE c = "A" -> "a" [] c = "B" -> "b" [] c = "C" -> "c" [] c = "X" -> "x"
    [] OTHER -> c

toLowerCase(text) == [k \in 1..Len(text) |-> LowerChar(text[k])]

\* needle is in text at the 0-based position offset
OccursAt(text, needle, offset) ==
  /\ offset >= 0
  /\ offset + Len(needle) <= Len(text)
  /\ \A k \in 1..Len(needle) : text[offset + k] = needle[k]

\* String.prototype.indexOf(needle, fromIndex): the first position at or after
\* fromIndex, -1 when there is none
indexOf(text, needle, fromIndex) ==
  LET hits == {i \in fromIndex..(Len(text) - Len(needle)) : OccursAt(text, needle, i)}
  IN IF hits = {} THEN -1 ELSE CHOOSE i \in hits : \A m \in hits : i <= m

RECURSIVE CollapseBlanks(_, _)
\* replace(/\s+/g, ' '): every run of blanks becomes one blank
CollapseBlanks(text, acc) ==
  IF text = <<>> THEN acc
  ELSE IF Head(text) = " " /\ acc # <<>> /\ acc[Len(acc)] = " "
  THEN CollapseBlanks(Tail(text), acc)
  ELSE CollapseBlanks(Tail(text), Append(acc, Head(text)))

Max(a, b) == IF a >= b THEN a ELSE b
Min(a, b) == IF a <= b THEN a ELSE b

\* text.slice(snippetStart, snippetEnd) with the blanks collapsed, trimmed
Snippet(text, offset, queryLength) ==
  LET snippetStart == Max(0, offset - SnippetContext)
      snippetEnd == Min(Len(text), offset + queryLength + SnippetContext)
  IN Trim(CollapseBlanks(SubSeq(text, snippetStart + 1, snippetEnd), <<>>))

Match(p, snippet, occ) ==
  [docId |-> p.documentId, pageIndex |-> p.pageIndex, pageId |-> p.id,
   snippet |-> snippet, occurrence |-> occ]

RECURSIVE MatchLoop(_, _, _, _, _)
\* the while loop over the occurrences in one page
MatchLoop(p, query, offset, occ, acc) ==
  IF offset = -1 THEN acc
  ELSE MatchLoop(p, query,
                 indexOf(toLowerCase(p.text), toLowerCase(query), offset + Len(query)),
                 occ + 1,
                 Append(acc, Match(p, Snippet(p.text, offset, Len(query)), occ)))

RECURSIVE SearchLoop(_, _, _)
\* the for loop over the pages; a page without text is passed over
SearchLoop(ps, query, matches) ==
  IF ps = <<>> THEN matches
  ELSE LET p == Head(ps)
       IN IF p.text = <<>> THEN SearchLoop(Tail(ps), query, matches)
          ELSE SearchLoop(Tail(ps), query,
                 MatchLoop(p, query, indexOf(toLowerCase(p.text), toLowerCase(query), 0),
                           0, matches))

NoSearchError == [kind |-> "null", query |-> <<>>]
EnterTextError == [kind |-> "Enter text to search for.", query |-> <<>>]
UploadFirstError == [kind |-> "Upload a PDF before searching.", query |-> <<>>]
NoMatchesError(query) == [kind |-> "No matches found for", query |-> query]

\* handleSearchSubmit where both misses are reported with the same words
handleSearchSubmitOneMessage(searchQuery, ps, hasContent) ==
  LET query == Trim(searchQuery)
      matches == SearchLoop(ps, query, <<>>)
  IN IF query = <<>> \/ ~hasContent \/ matches = <<>>
     THEN [searchError |-> NoMatchesError(<<>>), searchResults |-> <<>>]
     ELSE [searchError |-> NoSearchError, searchResults |-> matches]

\* the values handleSearchSubmit sets searchError and searchResults to
handleSearchSubmit(searchQuery, ps, hasContent) ==
  LET query == Trim(searchQuery)
      matches == SearchLoop(ps, query, <<>>)
  IN IF query = <<>> THEN [searchError |-> EnterTextError, searchResults |-> <<>>]
     ELSE IF ~hasContent THEN [searchError |-> UploadFirstError, searchResults |-> <<>>]
     ELSE IF matches = <<>> THEN [searchError |-> NoMatchesError(query), searchResults |-> <<>>]
     ELSE [searchError |-> NoSearchError, searchResults |-> matches]

\* ------------------------------------------------ calls of handleSearchSubmit
\* the longest page text and the longest query tried exhaustively
MaxPageTextLen == 3
MaxQueryLen == 2

SearchAlphabet == {"a", "A", " "}

\* a text longer than two snippet windows, "abc" near its start and near its end
LongPageText ==
  [k \in 1..100 |-> IF k \in {10, 90} THEN "a"
                    ELSE IF k \in {11, 91} THEN "b"
                    ELSE IF k \in {12, 92} THEN "c"
                    ELSE IF k % 7 = 0 THEN " " ELSE "x"]

ExamplePageText == <<"x", "x", " ", "a", "b", "c", " ", "a", "b", "c", " ", "y", "y">>

PageTexts ==
  (UNION {[1..n -> SearchAlphabet] : n \in 0..MaxPageTextLen})
    \cup {ExamplePageText, LongPageText, <<"a", "a", "a", "a">>, <<"A", "b", "a", "B", "a">>,
          <<"a", " ", " ", "a", "b", "c">>}

Queries ==
  (UNION {[1..n -> SearchAlphabet] : n \in 0..MaxQueryLen})
    \cup {<<"a", "b", "c">>, <<"A", "B", "C">>, <<"a", "b", "a">>, <<" ", "a", "b", "c", " ">>,
          <<"z">>}

\* the page a load makes of the text extracted for index k of document 1
TextPage(k, txt) ==
  LET hasText == Trim(txt) # <<>>
  IN [id |-> <<DocId(1), k>>, documentId |-> DocId(1), pageIndex |-> k,
      rotation |-> 0, hasText |-> hasText,
      textSource |-> IF hasText THEN "native" ELSE "none",
      text |-> IF hasText THEN txt ELSE <<>>,
      ocrWords |-> Undefined, ocrImageSize |-> Undefined]

\* page lists: none, one page of any text, two pages of a few texts
SearchedLists ==
  {<<>>} \cup {<<TextPage(0, t)>> : t \in PageTexts}
    \cup {<<TextPage(0, t), TextPage(1, u)>> :
            t \in {<<>>, <<"a">>, <<"a", "a", "a">>, ExamplePageText},
            u \in {<<>>, <<"A", "a">>, ExamplePageText}}

InitSearch ==
  /\ Idle
  /\ \E ps \in SearchedLists, searchQuery \in Queries, hasContent \in BOOLEAN :
       /\ ps # <<>> => hasContent
       /\ call = [fn |-> "handleSearchSubmit",
                  args |-> [searchQuery |-> searchQuery, pages |-> ps,
                            hasWorkspaceContent |-> hasContent],
                  done |-> FALSE,
                  result |-> [searchError |-> NoSearchError, searchResults |-> <<>>]]

\* the form is submitted
SearchSubmit ==
  /\ call.fn = "handleSearchSubmit" /\ ~call.done
  /\ call' = [call EXCEPT !.done = TRUE,
                          !.result = handleSearchSubmit(call.args.searchQuery, call.args.pages,
                                                        call.args.hasWorkspaceContent)]
  /\ UNCHANGED <<documents, documentOrder, pages, undoStack, canUndo, isProcessing,
                 isBlockingOverlay, jobs, nextDoc, ops, last, trail, asm>>

NextSearch == SearchSubmit

SpecSearch == InitSearch /\ [][NextSearch]_vars

\* ------------------------------------------------- findTextRects: rotation
TextRect(x, y, width, height) == [x |-> x, y |-> y, width |-> width, height |-> height]

\* the % of JavaScript: the result has the sign of the dividend
Remainder(a, n) == IF a >= 0 THEN a % n ELSE 0 - ((0 - a) % n)

\* (((options.rotation ?? 0) % 360) + 360) % 360
NormalizedRotation(rotation) == Remainder(Remainder(rotation, 360) + 360, 360)

\* mapRect measuring the quarter turn against the page width
mapRectAgainstWidth(r, rot, W, H) ==
  IF rot = 90 THEN TextRect(W - (r.y + r.height), r.x, r.height, r.width)
  ELSE IF rot = 180 THEN TextRect(W - (r.x + r.width), H - (r.y + r.height), r.width, r.height)
  ELSE TextRect(r.y, W - (r.x + r.width), r.height, r.width)

\* mapRect for a normalized rotation other than 0, on a page of W by H at rotation 0
mapRect(r, rot, W, H) ==
  IF rot = 90 THEN TextRect(H - (r.y + r.height), r.x, r.height, r.width)
  ELSE IF rot = 180 THEN TextRect(W - (r.x + r.width), H - (r.y + r.height), r.width, r.height)
  ELSE TextRect(r.y, W - (r.x + r.width), r.height, r.width)

\* the end of findTextRects: the rectangles found at rotation 0 are returned in the
\* coordinates of the rotated page, with the size of the rotated page
RotatedRects(rects, rotation, W, H) ==
  LET rot == NormalizedRotation(rotation)
  IN IF rot = 0 THEN [rects |-> rects, pageWidth |-> W, pageHeight |-> H]
     ELSE [rects |-> [k \in 1..Len(rects) |-> mapRect(rects[k], rot, W, H)],
           pageWidth |-> IF rot = 180 THEN W ELSE H,
           pageHeight |-> IF rot = 180 THEN H ELSE W]

\* the largest page side tried, in the unit the rectangles are measured in
MaxSide == 4

ViewportSizes == {[W |-> w, H |-> h] : w, h \in 2..MaxSide}

\* rectangles with a corner in the page, some reaching out of it
RectsAround(size) ==
  {TextRect(x, y, width, height) :
     x \in 0..size.W, y \in 0..size.H, width \in 0..size.W, height \in 0..size.H}

\* the rotations a page can have, and two that only normalization brings into range
RectRotations == {0, 90, 180, 270, 0 - 90, 450}

InitRects ==
  /\ Idle
  /\ \E size \in ViewportSizes, rotation \in RectRotations :
       \E rects \in {<<>>} \cup {<<r>> : r \in RectsAround(size)}
                     \cup {<<TextRect(0, 0, 1, 1), TextRect(1, 1, size.W - 1, size.H - 1)>>} :
         call = [fn |-> "findTextRects",
                 args |-> [rects |-> rects, rotation |-> rotation, W |-> size.W, H |-> size.H],
                 done |-> FALSE,
                 result |-> [rects |-> <<>>, pageWidth |-> 0, pageHeight |-> 0]]

\* the call returns
MapRects ==
  /\ call.fn = "findTextRects" /\ ~call.done
  /\ call' = [call EXCEPT !.done = TRUE,
                          !.result = RotatedRects(call.args.rects, call.args.rotation,
                                                  call.args.W, call.args.H)]
  /\ UNCHANGED <<documents, documentOrder, pages, undoStack, canUndo, isProcessing,
                 isBlockingOverlay, jobs, nextDoc, ops, last, trail, asm>>

NextRects == MapRects

SpecRects == InitRects /\ [][NextRects]_vars

\* ------------------------------------------- handlePdfLoad: the password loop
\* the attempts the loop allows
MaxAttempts == 3

\* what the user does at a prompt: cancel, or submit a password (the dialog does
\* not submit an empty one)
Cancelled == "cancelled"
RightPassword == "right"
Answers == {Cancelled, "wrong", RightPassword}

\* a file: whether opening it asks for a password, whether its page count can be
\* read once it is open, whether a preview of its pages renders, and what the user
\* answers at the first, second, ... prompt for it
LoadedFile(needsPassword, opens, renders, answers) ==
  [needsPassword |-> needsPassword, opens |-> opens, renders |-> renders,
   answers |-> answers]

\* verifyPdfPassword: the document opens with the password entered
verifyPdfPassword(file, entered) == entered = RightPassword

NoPassword == "undefined"

RECURSIVE PasswordLoopOneMore(_, _, _)
\* the loop with the bound off by one: while (attempts <= 3)
PasswordLoopOneMore(file, attempts, prompts) ==
  IF ~(attempts <= MaxAttempts) THEN [password |-> NoPassword, prompts |-> prompts]
  ELSE LET entered == file.answers[prompts + 1]
       IN IF entered = Cancelled \/ entered = ""
          THEN [password |-> NoPassword, prompts |-> prompts + 1]
          ELSE IF verifyPdfPassword(file, entered)
          THEN [password |-> entered, prompts |-> prompts + 1]
          ELSE PasswordLoopOneMore(file, attempts + 1, prompts + 1)

RECURSIVE PasswordLoop(_, _, _)
\* while (attempts < 3): prompts counts the calls of requestPassword
PasswordLoop(file, attempts, prompts) ==
  IF ~(attempts < MaxAttempts) THEN [password |-> NoPassword, prompts |-> prompts]
  ELSE LET entered == file.answers[prompts + 1]
       IN IF entered = Cancelled \/ entered = ""
          THEN [password |-> NoPassword, prompts |-> prompts + 1]
          ELSE IF verifyPdfPassword(file, entered)
          THEN [password |-> entered, prompts |-> prompts + 1]
          ELSE PasswordLoop(file, attempts + 1, prompts + 1)

\* the inspection of one file: it is skipped, or it gets a document entry
InspectFile(file) ==
  LET asked == IF file.needsPassword THEN PasswordLoop(file, 0, 0)
               ELSE [password |-> NoPassword, prompts |-> 0]
      skip == (file.needsPassword /\ asked.password = NoPassword) \/ ~file.opens
  IN [skip |-> skip, pageCount |-> IF skip THEN 0 ELSE 1,
      encrypted |-> file.needsPassword, txt |-> IF skip THEN <<>> ELSE SomeText,
      password |-> asked.password, prompts |-> asked.prompts]

\* handlePdfLoad for the files given: the documents, order and pages it adds, the
\* password stored with each document, the prompts shown per file; a preview that
\* throws for a page of a document that is not skipped ends the load in its catch
LoadFiles(ids, files) ==
  LET seen == [k \in 1..Len(files) |-> InspectFile(files[k])]
      outcomes == [k \in 1..Len(files) |->
                     FileOutcome(seen[k].skip, seen[k].pageCount, seen[k].encrypted,
                                 seen[k].txt)]
      thrown == \E k \in 1..Len(files) : ~seen[k].skip /\ ~files[k].renders
      new == IF thrown THEN NothingLoaded ELSE LoadLoop(ids, outcomes, NothingLoaded)
  IN [ok |-> ~thrown, new |-> new,
      passwords |-> [k \in {m \in 1..Len(files) : ids[m] \in DOMAIN new.newDocuments}
                       |-> seen[k].password],
      prompts |-> [k \in 1..Len(files) |-> seen[k].prompts]]

\* ----------------------------------------------------- loads of several files
\* what the user may answer at up to MaxAttempts + 1 prompts for one file
AnswerLists == [1..(MaxAttempts + 1) -> Answers]

AnyFiles ==
  {LoadedFile(TRUE, opens, TRUE, answers) : opens \in BOOLEAN, answers \in AnswerLists}
    \cup {LoadedFile(FALSE, opens, renders, [k \in 1..(MaxAttempts + 1) |-> Cancelled]) :
            opens \in BOOLEAN, renders \in BOOLEAN}

\* the files loaded next to any file: a plain one, a damaged one, an encrypted one
\* whose password is entered at once, one whose prompt is cancelled
OtherFiles ==
  {LoadedFile(FALSE, TRUE, TRUE, [k \in 1..(MaxAttempts + 1) |-> Cancelled]),
   LoadedFile(FALSE, FALSE, TRUE, [k \in 1..(MaxAttempts + 1) |-> Cancelled]),
   LoadedFile(TRUE, TRUE, TRUE, [k \in 1..(MaxAttempts + 1) |-> RightPassword]),
   LoadedFile(TRUE, TRUE, TRUE, [k \in 1..(MaxAttempts + 1) |-> Cancelled])}

FileLists ==
  {<<f>> : f \in AnyFiles}
    \cup {<<f, g>> : f \in AnyFiles, g \in OtherFiles}
    \cup {<<g, f>> : f \in AnyFiles, g \in OtherFiles}

InitLoad ==
  /\ Idle
  /\ \E files \in FileLists :
       call = [fn |-> "handlePdfLoad",
               args |-> [loaded |-> files, ids |-> [k \in 1..Len(files) |-> DocId(k)]],
               done |-> FALSE,
               result |-> [ok |-> FALSE, new |-> NothingLoaded, passwords |-> <<>>,
                           prompts |-> <<>>]]

\* the load runs to its end
LoadCall ==
  /\ call.fn = "handlePdfLoad" /\ ~call.done
  /\ call' = [call EXCEPT !.done = TRUE,
                          !.result = LoadFiles(call.args.ids, call.args.loaded)]
  /\ UNCHANGED <<documents, documentOrder, pages, undoStack, canUndo, isProcessing,
                 isBlockingOverlay, jobs, nextDoc, ops, last, trail, asm>>

NextLoad == LoadCall

SpecLoad == InitLoad /\ [][NextLoad]_vars

\* ---------------------------------------------------- mergePDFs, deletePage
\* A document is the sequence of its pages; page k of input d is <<d, k>>.
\* the page save() adds to a document that has none
BlankSheet == <<0, 0>>

\* the pages of the bytes save() returns for a document with the pages ps
SavedPages(ps) == IF ps = <<>> THEN <<BlankSheet>> ELSE ps

UtilFailure == [ok |-> FALSE, pages |-> <<>>]

RECURSIVE MergeLoop(_, _)
\* the loop over the buffers: the pages of each are copied and added in their order
MergeLoop(pdfBuffers, mergedPdf) ==
  IF pdfBuffers = <<>> THEN mergedPdf
  ELSE MergeLoop(Tail(pdfBuffers), mergedPdf \o Head(pdfBuffers))

mergePDFs(pdfBuffers) ==
  IF Len(pdfBuffers) = 0 THEN UtilFailure
  ELSE [ok |-> TRUE, pages |-> SavedPages(MergeLoop(pdfBuffers, <<>>))]

RECURSIVE SortDescending(_)
\* Array.from(new Set(pageIndices)).sort((a, b) => b - a)
SortDescending(indices) ==
  IF indices = {} THEN <<>>
  ELSE LET top == CHOOSE i \in indices : \A m \in indices : m <= i
       IN <<top>> \o SortDescending(indices \ {top})

\* pdfDoc.removePage(index), index counted from 0
RemovePage(ps, index) == SubSeq(ps, 1, index) \o SubSeq(ps, index + 2, Len(ps))

RECURSIVE DeleteLoop(_, _, _)
\* the loop over the indices, highest first; pageCount was read before the loop
DeleteLoop(indices, ps, pageCount) ==
  IF indices = <<>> THEN [ok |-> TRUE, pages |-> SavedPages(ps)]
  ELSE IF Head(indices) < 0 \/ Head(indices) >= pageCount THEN UtilFailure
  ELSE DeleteLoop(Tail(indices), RemovePage(ps, Head(indices)), pageCount)

deletePage(ps, pageIndices) ==
  IF Len(pageIndices) = 0 THEN [ok |-> TRUE, pages |-> ps]
  ELSE DeleteLoop(SortDescending(Range(pageIndices)), ps, Len(ps))

\* ------------------------------------------- calls of mergePDFs and deletePage
\* the most pages of an input document, the most documents merged, the most indices
MaxInputPages == 3
MaxMerged == 3
MaxIndices == 3

\* input d with n pages
InputDocument(d, n) == [k \in 1..n |-> <<d, k>>]

MergeInputs ==
  UNION {{[d \in 1..m |-> InputDocument(d, counts[d])] :
            counts \in [1..m -> 0..(MaxInputPages - 1)]} : m \in 0..MaxMerged}

IndexLists(n) == UNION {[1..m -> (0 - 1)..n] : m \in 0..MaxIndices}

InitPdfUtils ==
  /\ Idle
  /\ \/ \E pdfBuffers \in MergeInputs :
          call = [fn |-> "mergePDFs", args |-> [pdfBuffers |-> pdfBuffers],
                  done |-> FALSE, result |-> UtilFailure]
     \/ \E n \in 0..MaxInputPages :
          \E pageIndices \in IndexLists(n) :
            call = [fn |-> "deletePage",
                    args |-> [pages |-> InputDocument(1, n), pageIndices |-> pageIndices],
                    done |-> FALSE, result |-> UtilFailure]

MergeCall ==
  /\ call.fn = "mergePDFs" /\ ~call.done
  /\ call' = [call EXCEPT !.done = TRUE, !.result = mergePDFs(call.args.pdfBuffers)]
  /\ UNCHANGED <<documents, documentOrder, pages, undoStack, canUndo, isProcessing,
                 isBlockingOverlay, jobs, nextDoc, ops, last, trail, asm>>

DeleteCall ==
  /\ call.fn = "deletePage" /\ ~call.done
  /\ call' = [call EXCEPT !.done = TRUE,
                          !.result = deletePage(call.args.pages, call.args.pageIndices)]
  /\ UNCHANGED <<documents, documentOrder, pages, undoStack, canUndo, isProcessing,
                 isBlockingOverlay, jobs, nextDoc, ops, last, trail, asm>>

NextPdfUtils == MergeCall \/ DeleteCall

SpecPdfUtils == InitPdfUtils /\ [][NextPdfUtils]_vars

\* ------------------------------------------------------------------ rotatePage
\* A document is its pages and, place by place, their /Rotate angles.
RotationDirections == {"clockwise", "counterclockwise"}

\* direction === 'clockwise' ? 90 : -90
Delta(direction) == IF direction = "clockwise" THEN 90 ELSE 0 - 90

\* (currentRotation + delta + 360) % 360
NextRotation(currentRotation, direction) ==
  Remainder(currentRotation + Delta(direction) + 360, 360)

RotateFailure == [ok |-> FALSE, pages |-> <<>>, rotations |-> <<>>]

rotatePage(ps, rotations, pageIndex, direction) ==
  IF pageIndex < 0 \/ pageIndex >= Len(ps) THEN RotateFailure
  ELSE [ok |-> TRUE, pages |-> SavedPages(ps),
        rotations |-> [rotations EXCEPT
                         ![pageIndex + 1] = NextRotation(rotations[pageIndex + 1], direction)]]

\* ---------------------------------------------------------- calls of rotatePage
\* /Rotate angles a loaded page can carry: multiples of 90, of either sign
PageAngles == {0 - 450, 0 - 360, 0 - 90, 0, 90, 270}

InitRotatePage ==
  /\ Idle
  /\ \E n \in 0..MaxInputPages :
       \E rotations \in [1..n -> PageAngles] :
         \E pageIndex \in (0 - 1)..n :
           \E direction \in RotationDirections :
             call = [fn |-> "rotatePage",
                     args |-> [pages |-> InputDocument(1, n), rotations |-> rotations,
                               pageIndex |-> pageIndex, direction |-> direction],
                     done |-> FALSE, result |-> RotateFailure]

RotatePageCall ==
  /\ call.fn = "rotatePage" /\ ~call.done
  /\ call' = [call EXCEPT !.done = TRUE,
                          !.result = rotatePage(call.args.pages, call.args.rotations,
                                                call.args.pageIndex, call.args.direction)]
  /\ UNCHANGED <<documents, documentOrder, pages, undoStack, canUndo, isProcessing,
                 isBlockingOverlay, jobs, nextDoc, ops, last, trail, asm>>

NextRotatePage == RotatePageCall

SpecRotatePage == InitRotatePage /\ [][NextRotatePage]_vars

\* ------------------------------------------- calls of validatePdfRenderable
\* the thumbnail is targetWidth pixels wide; a channel below NearWhite is not white
TargetWidth == 40
NearWhite == 250

\* the most pixels of a thumbnail that differ from the white paper
MaxMarked == 4

Pixel(r, g, b, a) == [r |-> r, g |-> g, b |-> b, a |-> a]

WhitePixel == Pixel(255, 255, 255, 255)

\* an opaque dark pixel, one with a single faint channel, one at the threshold, and
\* a dark one that is fully transparent
MarkedPixels == {Pixel(0, 0, 0, 255), Pixel(255, 249, 255, 255),
                 Pixel(250, 250, 250, 255), Pixel(0, 0, 0, 0)}

ThumbnailHeights == {5, 10, 15}

\* a > 0 && (r < 250 || g < 250 || b < 250)
IsNonWhite(px) == px.a > 0 /\ (px.r < NearWhite \/ px.g < NearWhite \/ px.b < NearWhite)

\* nonWhite after the scan of the whole image data
CountNonWhite(data) == Cardinality({i \in 1..Len(data) : IsNonWhite(data[i])})

\* the image data of a thumbnail of the given height whose last marked pixels are px
Thumbnail(height, marked, px) ==
  [i \in 1..(TargetWidth * height) |->
     IF i > TargetWidth * height - marked THEN px ELSE WhitePixel]

\* what validatePdfRenderable meets for a rendered thumbnail, or for a failed render
ThumbnailFacts(rendered, data) ==
  [GoodFacts EXCEPT !.copy = IF rendered THEN "ok" ELSE "invalid",
                    !.canvas = Len(data), !.nonWhite = CountNonWhite(data)]

InitValidate ==
  /\ Idle
  /\ \E height \in ThumbnailHeights :
       \E marked \in 0..MaxMarked :
         \E px \in MarkedPixels :
           \E rendered \in BOOLEAN :
             call = [fn |-> "validatePdfRenderable",
                     args |-> [rendered |-> rendered,
                               data |-> Thumbnail(height, marked, px)],
                     done |-> FALSE, result |-> FALSE]

ValidateCall ==
  /\ call.fn = "validatePdfRenderable" /\ ~call.done
  /\ call' = [call EXCEPT !.done = TRUE,
                 !.result = validatePdfRenderable(
                              ThumbnailFacts(call.args.rendered, call.args.data))]
  /\ UNCHANGED <<documents, documentOrder, pages, undoStack, canUndo, isProcessing,
                 isBlockingOverlay, jobs, nextDoc, ops, last, trail, asm>>

NextValidate == ValidateCall

SpecValidate == InitValidate /\ [][NextValidate]_vars

\* ------------------------------------------------- computeOcrHighlightRects
\* the characters \p{L} and \p{N} among those the texts are made of
LettersAndDigits == {"a", "A", "b"}

\* s.replace(/[^\p{L}\p{N}]+/gu, '').toLowerCase()
normalizeToken(s) == toLowerCase(SelectSeq(s, LAMBDA c : c \in LettersAndDigits))

\* query.split(/\s+/).map(normalizeToken).filter(Boolean)
QueryTokens(query) ==
  LET parts == Split(CollapseBlanks(query, <<>>), " ")
  IN SelectSeq([k \in 1..Len(parts) |-> normalizeToken(parts[k])], LAMBDA n : n # <<>>)

\* minX, minY, maxX, maxY of one word
WordBox(w) == [minX |-> w.x, minY |-> w.y, maxX |-> w.x + w.width, maxY |-> w.y + w.height]

\* the box grown by Math.min / Math.max to hold the word w too
Grown(box, w) ==
  [minX |-> Min(box.minX, w.x), minY |-> Min(box.minY, w.y),
   maxX |-> Max(box.maxX, w.x + w.width), maxY |-> Max(box.maxY, w.y + w.height)]

RECURSIVE TokenLoop(_, _, _, _, _)
\* the loop over tokens[1..]: t counts from 0 as in the code; ok is false at the
\* first word that is missing or differs
TokenLoop(words, tokens, i, t, box) ==
  IF t >= Len(tokens) THEN [ok |-> TRUE, box |-> box]
  ELSE IF i + t >= Len(words) \/ normalizeToken(words[i + t + 1].text) # tokens[t + 1]
    THEN [ok |-> FALSE, box |-> box]
  ELSE TokenLoop(words, tokens, i, t + 1, Grown(box, words[i + t + 1]))

RECURSIVE TokenLoopFirstBox(_, _, _, _, _)
\* the loop over the tokens that keeps the box of the first word
TokenLoopFirstBox(words, tokens, i, t, box) ==
  IF t >= Len(tokens) THEN [ok |-> TRUE, box |-> box]
  ELSE IF i + t >= Len(words) \/ normalizeToken(words[i + t + 1].text) # tokens[t + 1]
    THEN [ok |-> FALSE, box |-> box]
  ELSE TokenLoopFirstBox(words, tokens, i, t + 1, box)

RectOf(box) == TextRect(box.minX, box.minY, box.maxX - box.minX, box.maxY - box.minY)

RECURSIVE WordLoop(_, _, _, _)
\* the loop over the words, i counted from 0
WordLoop(words, tokens, i, rects) ==
  IF i >= Len(words) THEN rects
  ELSE IF normalizeToken(words[i + 1].text) # tokens[1]
    THEN WordLoop(words, tokens, i + 1, rects)
  ELSE LET run == TokenLoop(words, tokens, i, 1, WordBox(words[i + 1]))
       IN WordLoop(words, tokens, i + 1,
                   IF run.ok THEN Append(rects, RectOf(run.box)) ELSE rects)

RECURSIVE WordLoopFirstBox(_, _, _, _)
WordLoopFirstBox(words, tokens, i, rects) ==
  IF i >= Len(words) THEN rects
  ELSE IF normalizeToken(words[i + 1].text) # tokens[1]
    THEN WordLoopFirstBox(words, tokens, i + 1, rects)
  ELSE LET run == TokenLoopFirstBox(words, tokens, i, 1, WordBox(words[i + 1]))
       IN WordLoopFirstBox(words, tokens, i + 1,
                           IF run.ok THEN Append(rects, RectOf(run.box)) ELSE rects)

\* computeOcrHighlightRects marking the first word of each run only
computeOcrHighlightRectsFirstWord(words, query) ==
  LET tokens == QueryTokens(query)
  IN IF Len(tokens) = 0 THEN <<>> ELSE WordLoopFirstBox(words, tokens, 0, <<>>)

computeOcrHighlightRects(words, query) ==
  LET tokens == QueryTokens(query)
  IN IF Len(tokens) = 0 THEN <<>> ELSE WordLoop(words, tokens, 0, <<>>)

\* ------------------------------------------ calls of computeOcrHighlightRects
\* the most words of a page and the longest query
MaxOcrWords == 3
MaxHighlightQueryLen == 3

WordTexts == {<<"a">>, <<"A", "-">>, <<"b">>, <<"-">>, <<"a", "b">>}

\* the k-th word of a page: on the first line after its predecessor, or at the start
\* of a line of its own
WordBoxes(k) == {[x |-> 3 * k, y |-> 0, width |-> 2, height |-> 1],
                 [x |-> 0, y |-> 2 * k, width |-> k, height |-> 1]}

WordLists ==
  UNION {{[k \in 1..n |-> [text |-> texts[k], x |-> boxes[k].x, y |-> boxes[k].y,
                           width |-> boxes[k].width, height |-> boxes[k].height]] :
            texts \in [1..n -> WordTexts],
            boxes \in {f \in [1..n -> UNION {WordBoxes(k) : k \in 1..n}] :
                         \A k \in 1..n : f[k] \in WordBoxes(k)}} : n \in 0..MaxOcrWords}

HighlightQueries ==
  UNION {[1..n -> {"a", "A", "b", " ", "-"}] : n \in 0..MaxHighlightQueryLen}

InitHighlight ==
  /\ Idle
  /\ \E words \in WordLists, query \in HighlightQueries :
       call = [fn |-> "computeOcrHighlightRects",
               args |-> [words |-> words, query |-> query],
               done |-> FALSE, result |-> <<>>]

Highlight ==
  /\ call.fn = "computeOcrHighlightRects" /\ ~call.done
  /\ call' = [call EXCEPT !.done = TRUE,
                 !.result = computeOcrHighlightRects(call.args.words, call.args.query)]
  /\ UNCHANGED <<documents, documentOrder, pages, undoStack, canUndo, isProcessing,
                 isBlockingOverlay, jobs, nextDoc, ops, last, trail, asm>>

NextHighlight == Highlight

SpecHighlight == InitHighlight /\ [][NextHighlight]_vars

\* ----------------------------------------------- the page loop of handleRunOcr
\* what the render and the recognition of one page come to: words, no word, a throw
\* of renderPageBitmap, or a throw of the run_ocr_tsv call
PageOutcomes == {"words", "empty", "renderThrows", "ocrThrows"}

RECURSIVE OcrLoop(_, _, _, _, _, _)
\* for (const page of pages): the pages from place k on; recognized holds the
\* pages that set their entry of textByDocument so far
OcrLoop(ps, docs, mode, outcomes, k, recognized) ==
  IF k > Len(ps) THEN [ok |-> TRUE, recognized |-> recognized]
  ELSE IF k \notin OcrTargets(ps, docs, mode)
    THEN OcrLoop(ps, docs, mode, outcomes, k + 1, recognized)
  ELSE IF outcomes[k] \in {"renderThrows", "ocrThrows"}
    THEN [ok |-> FALSE, recognized |-> recognized]
  ELSE OcrLoop(ps, docs, mode, outcomes, k + 1, recognized \cup {k})

\* the try block of handleRunOcr after pushSnapshot: the pages it leaves, and
\* whether it ended in the catch
RunOcrPages(ps, docs, mode, outcomes) ==
  LET run == OcrLoop(ps, docs, mode, outcomes, 1, {})
      keyOf(k) == <<ps[k].documentId, ps[k].pageIndex>>
      keys == {keyOf(k) : k \in run.recognized}
      lastOf(key) == CHOOSE k \in run.recognized :
                       keyOf(k) = key /\ \A m \in run.recognized : keyOf(m) = key => m <= k
      wordsOf(k) == IF outcomes[k] = "words" THEN OcrWords ELSE <<>>
      textByDocument == [key \in keys |-> Recognized(wordsOf(lastOf(key)))]
      ocrMap == [key \in keys |->
                   [words |-> wordsOf(lastOf(key)), w |-> BitmapSize.w, h |-> BitmapSize.h]]
  IN IF ~run.ok THEN [ok |-> FALSE, pages |-> ps]
     ELSE [ok |-> TRUE,
           pages |-> [k \in 1..Len(ps) |-> OcrApplied(ps[k], textByDocument, ocrMap)]]

\* ------------------------------------------------------- runs of handleRunOcr
\* a workspace of scanned pages of one document and pages with text of another
OcrWorkspaces ==
  {LoadedPages(DocId(1), scanned, BlankText) \o LoadedPages(DocId(2), typed, SomeText) :
     scanned \in 1..3, typed \in 0..1}

InitOcr ==
  /\ Idle
  /\ \E ps \in OcrWorkspaces, mode \in {"smart", "all"} :
       \E outcomes \in [1..Len(ps) -> PageOutcomes] :
         call = [fn |-> "handleRunOcr",
                 args |-> [pages |-> ps,
                           docs |-> (DocId(1) :> [pageCount |-> 3, encrypted |-> FALSE]) @@
                                    (DocId(2) :> [pageCount |-> 1, encrypted |-> FALSE]),
                           mode |-> mode, outcomes |-> outcomes],
                 done |-> FALSE, result |-> [ok |-> FALSE, pages |-> ps]]

OcrRun ==
  /\ call.fn = "handleRunOcr" /\ ~call.done
  /\ call' = [call EXCEPT !.done = TRUE,
                 !.result = RunOcrPages(call.args.pages, call.args.docs, call.args.mode,
                                        call.args.outcomes)]
  /\ UNCHANGED <<documents, documentOrder, pages, undoStack, canUndo, isProcessing,
                 isBlockingOverlay, jobs, nextDoc, ops, last, trail, asm>>

NextOcr == OcrRun

SpecOcr == InitOcr /\ [][NextOcr]_vars

\* ------------------------------------------- search results in the workspace
\* searchResults and currentMatchIndex of the App, held in `call` while the
\* workspace handlers run
SearchState(searchResults, currentMatchIndex) ==
  [fn |-> "search", args |-> <<>>, done |-> TRUE,
   result |-> [searchResults |-> searchResults, currentMatchIndex |-> currentMatchIndex]]

searchResults == call.result.searchResults
currentMatchIndex == call.result.currentMatchIndex
totalMatches == Len(searchResults)

\* the queries typed into the search box
TypedQueries == {<<"a">>, <<"b">>, <<"z">>}

InitResults ==
  /\ documents = NoDocuments
  /\ documentOrder = <<>>
  /\ pages = <<>>
  /\ undoStack = <<>>
  /\ canUndo = FALSE
  /\ isProcessing = FALSE
  /\ isBlockingOverlay = FALSE
  /\ jobs = <<>>
  /\ nextDoc = 0
  /\ ops = 0
  /\ last = [op |-> "init", result |-> "ok", pre |-> EmptyWorkspace, first |-> FALSE]
  /\ trail = <<>>
  /\ asm = NoCall
  /\ call = SearchState(<<>>, 0)

\* the index selectMatch sets: ((index % matches.length) + matches.length) % matches.length
boundedIndex(index, matches) ==
  Remainder(Remainder(index, Len(matches)) + Len(matches), Len(matches))

\* handleSearchSubmit with its selectMatch(0, matches)
SubmitSearch(searchQuery) ==
  /\ ~isBlockingOverlay
  /\ LET out == handleSearchSubmit(searchQuery, pages, hasWorkspaceContent)
     IN call' = SearchState(out.searchResults, 0)
  /\ UNCHANGED <<documents, documentOrder, pages, undoStack, canUndo, isProcessing,
                 isBlockingOverlay, jobs, nextDoc, ops, last, trail, asm>>

GoToNextMatch ==
  /\ ~isBlockingOverlay
  /\ totalMatches # 0
  /\ call' = SearchState(searchResults, boundedIndex(currentMatchIndex + 1, searchResults))
  /\ UNCHANGED <<documents, documentOrder, pages, undoStack, canUndo, isProcessing,
                 isBlockingOverlay, jobs, nextDoc, ops, last, trail, asm>>

GoToPreviousMatch ==
  /\ ~isBlockingOverlay
  /\ totalMatches # 0
  /\ call' = SearchState(searchResults, boundedIndex(currentMatchIndex - 1, searchResults))
  /\ UNCHANGED <<documents, documentOrder, pages, undoStack, canUndo, isProcessing,
                 isBlockingOverlay, jobs, nextDoc, ops, last, trail, asm>>

\* resetWorkspace with the search state it clears
ResetWorkspaceAndSearch ==
  /\ Interactive
  /\ undoStack' = PushSnapshot(undoStack)
  /\ canUndo' = TRUE
  /\ documents' = NoDocuments
  /\ documentOrder' = <<>>
  /\ pages' = <<>>
  /\ call' = SearchState(<<>>, 0)
  /\ last' = Step("reset", "ok")
  /\ ops' = ops + 1
  /\ UNCHANGED <<trail, asm, isProcessing, isBlockingOverlay, jobs, nextDoc>>

NextResults ==
  \/ \E searchQuery \in TypedQueries : SubmitSearch(searchQuery)
  \/ GoToNextMatch
  \/ GoToPreviousMatch
  \/ ResetWorkspaceAndSearch
  \/ HandleUndo
  \/ \E i \in 1..MaxPages : HandleDelete(i)
  \/ \E n \in FileCounts : LoadBegin(n)
  \/ \E j \in 1..MaxOps :
       \E outcomes \in UNION {[1..n -> FileOutcomes] : n \in FileCounts} :
         LoadComplete(j, outcomes)
  \/ MergeBegin
  \/ \E j \in 1..MaxOps, facts \in RunFacts : MergeComplete(j, facts)
  \/ \E rangeText \in SplitTexts(Len(pages)) : SplitBegin(rangeText)
  \/ \E j \in 1..MaxOps, facts \in RunFacts : SplitComplete(j, facts)

SpecResults == InitResults /\ [][NextResults]_vars

\* ------------------------------------------------------------- handleExport
\* the export requests made in one run
MaxExports == 3

\* exportChoiceOpen, exportResolverRef (0 for null, else the request whose promise
\* the resolver settles) and the requests made so far, held in `call`: a request
\* waits in requestExportChoice, runs between setIsProcessing(true) and the finally,
\* or has ended; resolved counts the calls of its promise's resolve
ExportState(exportChoiceOpen, exportResolverRef, requests) ==
  [fn |-> "handleExport", args |-> <<>>, done |-> FALSE,
   result |-> [exportChoiceOpen |-> exportChoiceOpen,
               exportResolverRef |-> exportResolverRef, requests |-> requests]]

exportChoiceOpen == call.result.exportChoiceOpen
exportResolverRef == call.result.exportResolverRef
requests == call.result.requests

\* activeDocumentIds.length > 1
hasMultipleDocuments ==
  Len(SelectSeq(documentOrder, LAMBDA id : id \in DOMAIN documents)) > 1

\* a workspace of one, two or three loaded one-page documents
InitExport ==
  /\ \E n \in 1..3 :
       /\ documents = [d \in {DocId(k) : k \in 1..n} |-> [pageCount |-> 1, encrypted |-> FALSE]]
       /\ documentOrder = [k \in 1..n |-> DocId(k)]
       /\ pages = [k \in 1..n |-> LoadedPages(DocId(k), 1, SomeText)[1]]
       /\ nextDoc = n
  /\ undoStack = <<>>
  /\ canUndo = FALSE
  /\ isProcessing = FALSE
  /\ isBlockingOverlay = FALSE
  /\ jobs = <<>>
  /\ ops = 0
  /\ last = [op |-> "init", result |-> "ok", pre |-> EmptyWorkspace, first |-> FALSE]
  /\ trail = <<>>
  /\ asm = NoCall
  /\ call = ExportState(FALSE, 0, <<>>)

ExportRequest(state, choice, resolved) ==
  [state |-> state, choice |-> choice, resolved |-> resolved]

\* the Export button of the toolbar: handleExport up to its first await
HandleExport ==
  /\ ~isBlockingOverlay /\ ~exportChoiceOpen
  /\ hasWorkspaceContent /\ ~isProcessing
  /\ Len(requests) < MaxExports
  /\ IF hasMultipleDocuments
     THEN /\ call' = ExportState(TRUE, Len(requests) + 1,
                                 Append(requests, ExportRequest("waiting", "", 0)))
          /\ UNCHANGED <<isProcessing, isBlockingOverlay>>
     ELSE /\ call' = ExportState(exportChoiceOpen, exportResolverRef,
                                 Append(requests, ExportRequest("running", "single", 0)))
          /\ isProcessing' = TRUE
          /\ isBlockingOverlay' = TRUE
  /\ UNCHANGED <<documents, documentOrder, pages, undoStack, canUndo, jobs, nextDoc,
                 ops, last, trail, asm>>

\* chooseSingle / chooseSeparate: the resolver is taken out of the ref and called;
\* it closes the dialog and settles the promise handleExport awaits
Choose(choice) ==
  /\ exportChoiceOpen
  /\ isProcessing' = TRUE
  /\ isBlockingOverlay' = TRUE
  /\ LET r == exportResolverRef
     IN IF r # 0
        THEN call' = ExportState(FALSE, 0,
                       [requests EXCEPT ![r] = ExportRequest("running", choice,
                                                             requests[r].resolved + 1)])
        ELSE call' = ExportState(exportChoiceOpen, 0, requests)
  /\ UNCHANGED <<documents, documentOrder, pages, undoStack, canUndo, jobs, nextDoc,
                 ops, last, trail, asm>>

\* the close button of the dialog: onClose={() => setExportChoiceOpen(false)}
CloseExportChoice ==
  /\ exportChoiceOpen
  /\ call' = ExportState(FALSE, exportResolverRef, requests)
  /\ UNCHANGED <<documents, documentOrder, pages, undoStack, canUndo, isProcessing,
                 isBlockingOverlay, jobs, nextDoc, ops, last, trail, asm>>

\* the try / catch / finally of handleExport: the export is written or fails
ExportEnds(r) ==
  /\ r \in 1..Len(requests)
  /\ requests[r].state = "running"
  /\ call' = ExportState(exportChoiceOpen, exportResolverRef,
                         [requests EXCEPT ![r].state = "ended"])
  /\ isProcessing' = FALSE
  /\ isBlockingOverlay' = FALSE
  /\ UNCHANGED <<documents, documentOrder, pages, undoStack, canUndo, jobs, nextDoc,
                 ops, last, trail, asm>>

NextExport ==
  \/ HandleExport
  \/ \E choice \in {"single", "separate"} : Choose(choice)
  \/ CloseExportChoice
  \/ \E r \in 1..MaxExports : ExportEnds(r)

SpecExport == InitExport /\ [][NextExport]_vars

\* the user answers an open dialog with one of its three controls, and a running
\* export comes to its finally
SpecExportLive ==
  /\ SpecExport
  /\ WF_vars((\E choice \in {"single", "separate"} : Choose(choice)) \/ CloseExportChoice)
  /\ WF_vars(\E r \in 1..MaxExports : ExportEnds(r))

\* ================================================================= claims
\* a step that is one invocation of the handler op
Invokes(op) == ops' = ops + 1 /\ last'.op = op

\* the operations that change the workspace, as `last` names them once they have run
MutatingOps == {"reorder", "rotate", "delete", "reset", "load", "merge", "split", "ocr"}

WorkspaceHadContent(ws) == Len(ws.pages) > 0 \/ Len(ws.documentOrder) > 0

\* C1: an undo that directly follows a mutating operation (a load only when the
\* workspace had content when the load was started) leaves documents, documentOrder
\* and pages as they were immediately before that operation.
C1_UndoRestoresPreOperationState ==
  [][(/\ Invokes("undo")
      /\ last.op \in MutatingOps
      /\ (last.op = "load" => WorkspaceHadContent(last.pre)))
     => Workspace' = last.pre]_vars

\* C2: handleUndo on an empty undo stack changes none of documents, documentOrder,
\* pages and the stack, and ends without an error.
C2_UndoOnEmptyStackIsNoOp ==
  [][(Invokes("undo") /\ undoStack = <<>>)
     => /\ UNCHANGED <<documents, documentOrder, pages, undoStack>>
        /\ last'.result = "noop"]_vars

C2_Witness == last.op = "undo" /\ last.result = "noop" /\ Len(pages) > 0

\* C3: every mutating operation pushes the workspace it starts from before it changes
\* anything, a load into an empty workspace pushes nothing, and an undo that directly
\* follows the very first load leaves the loaded pages in place.
C3_SnapshotBeforeEveryOperationButFirstLoad ==
  [][/\ (\E op \in {"reorder", "rotate", "delete", "reset", "mergeBegin", "splitBegin",
                    "split", "ocrBegin"} : Invokes(op))
          => undoStack' = Append(undoStack, Workspace)
     /\ Invokes("loadBegin")
          => undoStack' = IF WorkspaceHadContent(Workspace) THEN Append(undoStack, Workspace)
                          ELSE undoStack
     /\ (Invokes("undo") /\ last.op = "load" /\ last.first /\ last.result = "ok")
          => pages' = pages]_vars

\* C4: every page's documentId is a key of documents.
C4_EveryPageResolvesToADocument ==
  \A k \in 1..Len(pages) : pages[k].documentId \in DOMAIN documents

\* a delete has pruned a document and pages of another document remain
C4_Witness ==
  /\ last.op = "delete"
  /\ Len(pages) > 0
  /\ DOMAIN documents # DOMAIN last.pre.documents

\* C5: every document of the documents map is referenced by at least one page.
C5_EveryDocumentHasAPage ==
  \A d \in DOMAIN documents : \E k \in 1..Len(pages) : pages[k].documentId = d

\* C6: every page's rotation is one of 0, 90, 180, 270.
C6_RotationIsQuarterTurn ==
  \A k \in 1..Len(pages) : pages[k].rotation \in Rotations

\* a counterclockwise rotate of an unrotated page has wrapped to 270
C6_Witness ==
  /\ last.op = "rotate"
  /\ \E k \in 1..Len(pages) : pages[k].rotation = 270 /\ last.pre.pages[k].rotation = 0

\* the rotation of the page with the given id
RotationOf(ps, id) == (CHOOSE q \in Range(ps) : q.id = id).rotation

\* C7: after four clockwise rotations in a row of one page its rotation is what it
\* was before the four, and after a rotation directly followed by the opposite
\* rotation of the same page its rotation is what it was before the two.
C7_FourTurnsAndOppositeTurnsAreIdentity ==
  LET n == Len(trail)
  IN /\ (n >= 4 /\ \A k \in (n - 3)..n : trail[k] = <<trail[n][1], "clockwise">>)
          => RotationOf(pages, trail[n][1]) = RotationOf(undoStack[n - 3].pages, trail[n][1])
     /\ (n >= 2 /\ trail[n - 1][1] = trail[n][1] /\ trail[n - 1][2] # trail[n][2])
          => RotationOf(pages, trail[n][1]) = RotationOf(undoStack[n - 1].pages, trail[n][1])

\* one page was turned counterclockwise to 270 and then four times clockwise
C7_Witness ==
  \E id \in {p.id : p \in Range(pages)} :
    /\ trail = <<<<id, "counterclockwise">>, <<id, "clockwise">>, <<id, "clockwise">>,
                 <<id, "clockwise">>, <<id, "clockwise">>>>
    /\ RotationOf(undoStack[2].pages, id) = 270
    /\ RotationOf(pages, id) = 270

\* a page of the list refers to a document the map does not hold
RefersToMissingDocument(pageList, docs) ==
  \E i \in 1..Len(pageList) : pageList[i].documentId \notin DOMAIN docs

\* C8: a call of assemblePdfFromPages with an empty page list throws and returns
\* no document, whatever the preset and bakeRotation.
C8_EmptyListFails ==
  (asm.done /\ asm.pageList = <<>>) => (~asm.result.ok /\ asm.result.out = <<>>)

\* a call with an empty list, a raster preset and bakeRotation has ended
C8_Witness ==
  asm.done /\ asm.pageList = <<>> /\ asm.preset = "compact" /\ asm.bakeRotation

\* C9: a call of assemblePdfFromPages with a page whose documentId is not a key of
\* the documents map throws: it returns no document.
C9_MissingDocumentFails ==
  (asm.done /\ RefersToMissingDocument(asm.pageList, asm.docs)) => ~asm.result.ok

\* C10: a call of assemblePdfFromPages with a non-empty list that returns, returns
\* a document with as many pages as the list.
C10_PageCountEqualsListLength ==
  (asm.done /\ asm.pageList # <<>> /\ asm.result.ok)
    => Len(asm.result.out) = Len(asm.pageList)

\* C11: when a call of assemblePdfFromPages returns, the i-th page of its document
\* is made from the i-th page of the list, for every i.
C11_OutputOrderIsInputOrder ==
  (asm.done /\ asm.result.ok)
    => \A i \in 1..Len(asm.result.out) :
         i <= Len(asm.pageList) /\ asm.result.out[i].src = asm.pageList[i].id

\* the condition of global raster mode, as the claim words it: a preset other than
\* 'none', or a page of the list that belongs to an encrypted document
RasterMode(pageList, docs, preset) ==
  \/ preset # "none"
  \/ \E i \in 1..Len(pageList) :
       pageList[i].documentId \in DOMAIN docs /\ docs[pageList[i].documentId].encrypted

\* C12: in global raster mode no structural copy is attempted for any page, and a
\* call that returns has rasterized every page of the list: its document holds one
\* rasterized page per list entry.
C12_RasterModeRasterizesEveryPage ==
  (asm.done /\ RasterMode(asm.pageList, asm.docs, asm.preset))
    => /\ asm.result.tried = <<>>
       /\ asm.result.ok
            => /\ Len(asm.result.out) = Len(asm.pageList)
               /\ \A i \in 1..Len(asm.result.out) :
                    /\ asm.result.out[i].how = "raster"
                    /\ asm.result.out[i].src = asm.pageList[i].id

\* a page that is unrotated, of an unencrypted document of the map, without a
\* rotation of its own, and that the libraries read, copy and render without error
PlainPage(p, docs, facts) ==
  /\ p.documentId \in DOMAIN docs
  /\ ~docs[p.documentId].encrypted
  /\ p.rotation = 0
  /\ facts.readable /\ facts.intrinsic = 0
  /\ facts.copy = "ok" /\ facts.render = "ok"

\* C13: a call with preset 'none' and bakeRotation false over a non-empty list of such
\* pages returns, and every page of its document is a structural copy of the list
\* entry at its position, whatever is drawn on the page.
C13_PlainCallNeverRasterizes ==
  (/\ asm.done
   /\ asm.preset = "none" /\ ~asm.bakeRotation
   /\ asm.pageList # <<>>
   /\ \A i \in 1..Len(asm.pageList) :
        PlainPage(asm.pageList[i], asm.docs, asm.env[asm.pageList[i].id]))
    => /\ asm.result.ok
       /\ Len(asm.result.out) = Len(asm.pageList)
       /\ \A i \in 1..Len(asm.result.out) :
            /\ asm.result.out[i].how = "copy"
            /\ asm.result.out[i].src = asm.pageList[i].id

\* C14: a call over a non-empty list of pages of documents of the map returns
\* whatever fails for single pages (the structural copy, its validation, the
\* render): no failure of one page makes the call throw.
C14_PageFailureNeverAborts ==
  (/\ asm.done
   /\ asm.pageList # <<>>
   /\ ~RefersToMissingDocument(asm.pageList, asm.docs))
    => asm.result.ok

\* a finished computation of the resolution for a page over the budget
OverBudgetCall ==
  /\ call.fn = "targetDpi" /\ call.done
  /\ ExceedsBudget(call.args.w, call.args.h, call.args.dpi, call.args.maxPixels)

\* C15 as stated: for a page whose pixel count at the configured dpi exceeds the
\* budget, the dpi passed to the renderer is strictly below the configured dpi, the
\* pixel count at it is within the budget, and it is at least 72.
C15_Original ==
  OverBudgetCall
    => /\ call.result < call.args.dpi
       /\ ~ExceedsBudget(call.args.w, call.args.h, call.result, call.args.maxPixels)
       /\ call.result >= 72

\* C15 amended: for such a page the dpi passed to the renderer is at least 72 and
\* at most the configured dpi, strictly below it when the configured dpi is above
\* 72, and the pixel count at it is within the budget unless the page exceeds the
\* budget already at 72 dpi, in which case 72 is passed.
C15_EffectiveDpiWithinBudgetOrAtFloor ==
  OverBudgetCall
    => /\ call.result >= 72
       /\ call.result <= call.args.dpi
       /\ call.args.dpi > 72 => call.result < call.args.dpi
       /\ IF ExceedsBudget(call.args.w, call.args.h, 72, call.args.maxPixels)
          THEN call.result = 72
          ELSE ~ExceedsBudget(call.args.w, call.args.h, call.result, call.args.maxPixels)

\* a poster-sized page on the fallback path was scaled to between 72 and 150 dpi
C15_Witness ==
  /\ OverBudgetCall
  /\ call.args.maxPixels = MAX_PIXELS_FALLBACK
  /\ call.result > 72 /\ call.result < call.args.dpi

\* ---- what a range text means, read off the text itself
RECURSIVE NumberOf(_)
\* the number a text of digits writes
NumberOf(ds) ==
  IF ds = <<>> THEN 0
  ELSE NumberOf(SubSeq(ds, 1, Len(ds) - 1)) * 10 + DigitValue(ds[Len(ds)])

IsNumber(tok) == tok # <<>> /\ \A k \in 1..Len(tok) : tok[k] \in Digits

\* the position of the dash of a token with exactly one dash, else 0
DashAt(tok) ==
  IF Cardinality({k \in 1..Len(tok) : tok[k] = "-"}) = 1
  THEN CHOOSE k \in 1..Len(tok) : tok[k] = "-"
  ELSE 0

\* a page number, or two page numbers with a dash between them
WellFormedToken(tok) ==
  \/ IsNumber(tok)
  \/ /\ DashAt(tok) > 0
     /\ IsNumber(SubSeq(tok, 1, DashAt(tok) - 1))
     /\ IsNumber(SubSeq(tok, DashAt(tok) + 1, Len(tok)))

\* the range a well-formed token names
TokenRange(tok) ==
  IF IsNumber(tok) THEN PageRange(NumberOf(tok), NumberOf(tok))
  ELSE PageRange(NumberOf(SubSeq(tok, 1, DashAt(tok) - 1)),
                 NumberOf(SubSeq(tok, DashAt(tok) + 1, Len(tok))))

\* well-formed and within 1..total
GoodToken(tok, total) ==
  /\ WellFormedToken(tok)
  /\ 1 <= TokenRange(tok).start
  /\ TokenRange(tok).start <= TokenRange(tok).end
  /\ TokenRange(tok).end <= total

\* the comma-separated tokens of a text, blanks taken out
Tokens(text) == Split(SelectSeq(text, LAMBDA c : c # " "), ",")

ParseCallDone == call.fn = "parsePageRanges" /\ call.done

\* C18: for a text whose tokens are all page numbers or pairs within 1..total, with
\* blanks anywhere, the parser returns one range per token in token order: {p, p}
\* for a number p and {a, b} for a pair a-b.
C18_ValidTextParsesTokenByToken ==
  LET toks == Tokens(call.args.value)
  IN (ParseCallDone /\ \A k \in 1..Len(toks) : GoodToken(toks[k], call.args.totalPages))
       => /\ call.result.ok
          /\ call.result.ranges = [k \in 1..Len(toks) |-> TokenRange(toks[k])]

\* the dialog's example "1-3,4,5-6" against 6 pages has given [{1,3},{4,4},{5,6}]
C18_Witness ==
  /\ ParseCallDone
  /\ call.args.value = <<"1", "-", "3", ",", "4", ",", "5", "-", "6">>
  /\ call.args.totalPages = 6
  /\ call.result.ranges = <<PageRange(1, 3), PageRange(4, 4), PageRange(5, 6)>>

\* C19: a text with a token that is not a page number or a pair of page numbers, or
\* that is out of 1..total, is not accepted: the parser throws, and the error names
\* the first such token.
C19_BadTokenIsRejected ==
  LET toks == Tokens(call.args.value)
      bad == {k \in 1..Len(toks) : ~GoodToken(toks[k], call.args.totalPages)}
  IN (ParseCallDone /\ bad # {})
       => /\ ~call.result.ok
          /\ call.result.segment = toks[CHOOSE k \in bad : \A m \in bad : k <= m]

SplitCallDone == call.fn = "splitPDF" /\ call.done

\* start < 1, end < start or end > the page count of the source
InvalidRange(r, total) == r.start < 1 \/ r.end < r.start \/ r.end > total

\* C16: splitPDF throws and returns no chunk when the range list is empty or when
\* any one range is invalid, whatever the other ranges are.
C16_SplitRejectsBadRanges ==
  (/\ SplitCallDone
   /\ \/ call.args.ranges = <<>>
      \/ \E k \in 1..Len(call.args.ranges) :
           InvalidRange(call.args.ranges[k], Len(call.args.srcPages)))
    => (~call.result.ok /\ call.result.chunks = <<>>)

\* a valid range followed by one that ends past the last page has made the call fail
C16_Witness ==
  /\ SplitCallDone
  /\ Len(call.args.ranges) = 2
  /\ ~InvalidRange(call.args.ranges[1], Len(call.args.srcPages))
  /\ call.args.ranges[2].end > Len(call.args.srcPages)
  /\ ~call.result.ok

\* C17: for a non-empty list of valid ranges splitPDF returns one chunk per range, in
\* the order of the ranges, chunk i holding source pages start_i..end_i in source
\* order; the single range {1, N} over a document of N pages gives one chunk of N pages.
C17_SplitReturnsOneChunkPerRange ==
  (/\ SplitCallDone
   /\ call.args.ranges # <<>>
   /\ \A k \in 1..Len(call.args.ranges) :
        ~InvalidRange(call.args.ranges[k], Len(call.args.srcPages)))
    => /\ call.result.ok
       /\ Len(call.result.chunks) = Len(call.args.ranges)
       /\ \A i \in 1..Len(call.args.ranges) :
            LET r == call.args.ranges[i]
            IN /\ Len(call.result.chunks[i]) = r.end - r.start + 1
               /\ \A k \in 1..Len(call.result.chunks[i]) :
                    call.result.chunks[i][k] = r.start + k - 1
       /\ call.args.ranges = <<PageRange(1, Len(call.args.srcPages))>>
            => /\ Len(call.result.chunks) = 1
               /\ call.result.chunks[1] = call.args.srcPages

\* a document of three pages was split by {2,3},{1,1} into pages 2,3 and page 1
C17_Witness ==
  /\ SplitCallDone
  /\ Len(call.args.srcPages) = 3
  /\ call.args.ranges = <<PageRange(2, 3), PageRange(1, 1)>>
  /\ call.result.chunks = <<<<2, 3>>, <<1>>>>

\* the N singleton ranges {1,1}, {2,2}, ..., {N,N}
Singletons(N) == [k \in 1..N |-> PageRange(k, k)]

\* the workspace is N documents of one page each, page k in document k
SinglePageDocuments(docs, order, ps, N) ==
  /\ Len(order) = N
  /\ Cardinality(Range(order)) = N
  /\ DOMAIN docs = Range(order)
  /\ \A k \in 1..N : docs[order[k]].pageCount = 1
  /\ Len(ps) = N
  /\ \A k \in 1..N : ps[k].documentId = order[k] /\ ps[k].pageIndex = 0

\* C20: confirmSplit with a range text that trims to "*" on a workspace of N pages
\* works with the ranges {1,1}, ..., {N,N} in that order, and when that split completes
\* the workspace holds N documents of one page each, in the order of the pages.
C20_StarSplitsIntoSinglePages ==
  [][/\ (/\ Invokes("splitBegin")
         /\ Trim(jobs'[Len(jobs')].arg.text) = <<"*">>)
        => jobs'[Len(jobs')].arg.ranges = Singletons(Len(pages))
     /\ (/\ Len(jobs') < Len(jobs)
         /\ last'.op = "split" /\ last'.result = "ok"
         /\ Trim(last'.text) = <<"*">>)
        => /\ SinglePageDocuments(documents', documentOrder', pages', Len(last'.pre.pages))
           /\ \A k \in 1..Len(pages') : pages'[k].rotation = last'.pre.pages[k].rotation]_vars

\* a split with "*" of a list of two pages has completed and left two documents
C20_Witness ==
  /\ last.op = "split" /\ last.result = "ok"
  /\ Trim(last.text) = <<"*">>
  /\ Len(last.pre.pages) = 2
  /\ Len(last.pre.documentOrder) = 1
  /\ SinglePageDocuments(documents, documentOrder, pages, 2)

SearchCallDone == call.fn = "handleSearchSubmit" /\ call.done

\* the query searched for: what was typed, without the blanks around it
SearchedQuery == Trim(call.args.searchQuery)

\* every position at which the lowercased query is in the lowercased text
Positions(text, query) ==
  {i \in 0..(Len(text) - Len(query)) : OccursAt(toLowerCase(text), toLowerCase(query), i)}

\* the results of the page with the given id, in the order of the result list
ResultsOf(results, pageId) == SelectSeq(results, LAMBDA r : r.pageId = pageId)

\* the place in the list of the page a result belongs to
PagePlace(ps, r) == CHOOSE k \in 1..Len(ps) : ps[k].id = r.pageId

\* C21: for a non-empty query on a workspace with content, each page has one result
\* per position at which the lowercased query occurs in its lowercased text,
\* overlapping occurrences included, numbered 0, 1, 2, ... from left to right, and
\* the results of different pages come in the order of the pages.
C21_SearchRecordsEveryOccurrence ==
  (SearchCallDone /\ SearchedQuery # <<>> /\ call.args.hasWorkspaceContent)
    => LET ps == call.args.pages
           results == call.result.searchResults
       IN /\ \A k \in 1..Len(ps) :
               LET mine == ResultsOf(results, ps[k].id)
               IN /\ Len(mine) = Cardinality(Positions(ps[k].text, SearchedQuery))
                  /\ \A i \in 1..Len(mine) : mine[i].occurrence = i - 1
          /\ \A i, j \in 1..Len(results) :
               i < j => PagePlace(ps, results[i]) <= PagePlace(ps, results[j])

\* C22: the query "abc" on the one page text "xx abc abc yy" gives two results, and
\* the snippets of the two results differ.
C22_ExampleGivesTwoDistinctSnippets ==
  (/\ SearchCallDone
   /\ SearchedQuery = <<"a", "b", "c">>
   /\ call.args.pages = <<TextPage(0, ExamplePageText)>>)
    => /\ Len(call.result.searchResults) = 2
       /\ call.result.searchResults[1].snippet # call.result.searchResults[2].snippet

\* the queries typed against the workspace: its texts, parts of them, other words
WorkspaceQueries == {<<>>, <<"a">>, <<"b">>, <<"a", "b">>, <<"x">>, <<"X", " ">>, <<"z">>}

\* the results a search of the list ps for query gives
ResultsFor(ps, query) == handleSearchSubmit(query, ps, TRUE).searchResults

\* some query finds something in page p
YieldsResults(p) == \E query \in WorkspaceQueries : ResultsFor(<<p>>, query) # <<>>

\* C23: in every state of the workspace and for every query, no result of a search
\* belongs to a page tagged textSource none; a page tagged none comes to yield
\* results only by the step of an OCR run that tags it ocr.
C23_UntaggedPagesAreNeverFound ==
  [][/\ \A query \in WorkspaceQueries :
          LET results == ResultsFor(pages', query)
          IN \A i \in 1..Len(results), k \in 1..Len(pages') :
               pages'[k].id = results[i].pageId => pages'[k].textSource # "none"
     /\ \A k \in 1..Len(pages), m \in 1..Len(pages') :
          (/\ pages[k].id = pages'[m].id
           /\ pages[k].textSource = "none"
           /\ YieldsResults(pages'[m]))
            => last'.op = "ocr" /\ pages'[m].textSource = "ocr"]_vars

\* an OCR run has retagged a page that was tagged none, and the page is now found
C23_Witness ==
  /\ last.op = "ocr" /\ last.result = "ok"
  /\ \E k \in 1..Len(pages), m \in 1..Len(last.pre.pages) :
       /\ last.pre.pages[m].id = pages[k].id
       /\ last.pre.pages[m].textSource = "none"
       /\ pages[k].textSource = "ocr"
       /\ ResultsFor(<<pages[k]>>, <<"x">>) # <<>>

\* the query occurs in no page of the list
Unmatched(ps, query) == \A k \in 1..Len(ps) : Positions(ps[k].text, query) = {}

\* C24: an empty or blank query and a query that matches nothing each give an empty
\* result list and a reason that is not null, the reason for the empty query being
\* another one than the reason for the unmatched query; a search that finds matches
\* gives the matches and a null reason.
C24_EmptyAndUnmatchedHaveTheirReasons ==
  SearchCallDone
    => LET reason == call.result.searchError
           results == call.result.searchResults
       IN /\ SearchedQuery = <<>>
               => /\ results = <<>>
                  /\ reason.kind = "Enter text to search for."
          /\ (SearchedQuery # <<>> /\ Unmatched(call.args.pages, SearchedQuery))
               => /\ results = <<>>
                  /\ reason.kind \notin {"null", "Enter text to search for."}
          /\ (SearchedQuery # <<>> /\ ~Unmatched(call.args.pages, SearchedQuery))
               => /\ results # <<>>
                  /\ reason.kind = "null"

\* the query "z" was searched for in a page that has text, and nothing was found
C24_Witness ==
  /\ SearchCallDone
  /\ SearchedQuery = <<"z">>
  /\ Len(call.args.pages) = 1 /\ call.args.pages[1].text # <<>>
  /\ call.result.searchResults = <<>>
  /\ call.result.searchError = NoMatchesError(<<"z">>)

RectsCallDone == call.fn = "findTextRects" /\ call.done

\* the rectangle lies within a page of the given width and height
Inside(r, width, height) ==
  /\ 0 <= r.x /\ r.x + r.width <= width
  /\ 0 <= r.y /\ r.y + r.height <= height

\* C25: on a page of W by H at rotation 0, a rectangle {x, y, width, height} found at
\* rotation 0 is returned at 90 as {H-(y+height), x, height, width}, at 180 as
\* {W-(x+width), H-(y+height), width, height} and at 270 as {y, W-(x+width), height,
\* width}; the page size returned is H by W at 90 and 270 and W by H at 180; and a
\* rectangle inside the page at rotation 0 is inside the page returned.
C25_RectsFollowThePageRotation ==
  (RectsCallDone /\ call.args.rotation \in {90, 180, 270})
    => LET W == call.args.W
           H == call.args.H
           out == call.result
       IN /\ Len(out.rects) = Len(call.args.rects)
          /\ <<out.pageWidth, out.pageHeight>> =
               IF call.args.rotation = 180 THEN <<W, H>> ELSE <<H, W>>
          /\ \A k \in 1..Len(call.args.rects) :
               LET r == call.args.rects[k]
                   m == out.rects[k]
               IN /\ call.args.rotation = 90
                       => m = [x |-> H - (r.y + r.height), y |-> r.x,
                               width |-> r.height, height |-> r.width]
                  /\ call.args.rotation = 180
                       => m = [x |-> W - (r.x + r.width), y |-> H - (r.y + r.height),
                               width |-> r.width, height |-> r.height]
                  /\ call.args.rotation = 270
                       => m = [x |-> r.y, y |-> W - (r.x + r.width),
                               width |-> r.height, height |-> r.width]
                  /\ Inside(r, W, H) => Inside(m, out.pageWidth, out.pageHeight)

\* a rectangle off the centre of a 3 by 4 page was mapped for a page turned to 90
C25_Witness ==
  /\ RectsCallDone
  /\ call.args.rotation = 90 /\ call.args.W = 3 /\ call.args.H = 4
  /\ call.args.rects = <<TextRect(1, 0, 2, 1)>>
  /\ call.result.rects = <<TextRect(3, 1, 1, 2)>>
  /\ call.result.pageWidth = 4 /\ call.result.pageHeight = 3

\* a load, merge, split or OCR run has started and has not completed
RunInFlight == jobs # <<>>

\* C26: while a load, merge, split or OCR run is in flight, no mutating operation
\* (rotate, delete, reorder, reset, undo, load, merge, split, OCR) is accepted.
C26_NoOperationDuringARun ==
  [][RunInFlight => ~(ops' = ops + 1)]_vars

LoadCallDone == call.fn = "handlePdfLoad" /\ call.done

\* the right password is entered at one of the first three prompts, after wrong
\* ones only
Unlocked(file) ==
  \E n \in 1..3 : /\ file.answers[n] = RightPassword
                   /\ \A m \in 1..(n - 1) : file.answers[m] = "wrong"

\* the prompt is cancelled or three passwords fail, or the document does not open
Refused(file) == (file.needsPassword /\ ~Unlocked(file)) \/ ~file.opens

OcrFields(p) == <<p.hasText, p.textSource, p.text, p.ocrWords, p.ocrImageSize>>

\* all of the OCR fields are set, and set to one recognition, or none is
OcrFieldsTogether(p) ==
  IF p.textSource = "ocr"
  THEN /\ p.hasText
       /\ p.ocrWords # Undefined /\ p.ocrImageSize # Undefined
       /\ p.text = Recognized(p.ocrWords[1])
  ELSE p.ocrWords = Undefined /\ p.ocrImageSize = Undefined

\* C28: in every state each page has either no OCR field set, or textSource ocr with
\* the text equal to the recognized words joined by blanks, the word boxes and the
\* size of the raster all set; and the OCR fields of a page change only in the step
\* that ends an OCR run, after the recognition, all in that one step (or in an undo,
\* which puts an earlier state back).
C28_OcrFieldsAreWrittenTogether ==
  [][/\ \A k \in 1..Len(pages') : OcrFieldsTogether(pages'[k])
     /\ \A k \in 1..Len(pages), m \in 1..Len(pages') :
          (pages[k].id = pages'[m].id /\ OcrFields(pages[k]) # OcrFields(pages'[m]))
            => \/ last'.op = "undo"
               \/ /\ last'.op = "ocr" /\ Len(jobs') < Len(jobs)
                  /\ pages'[m].textSource = "ocr"
                  /\ pages'[m].ocrWords = Defined(OcrWords)
                  /\ pages'[m].ocrImageSize = Defined(BitmapSize)
                  /\ pages'[m].text = OcrText]_vars

\* an OCR run has ended with words for the first of two scanned pages only: that
\* page has all the OCR fields, the other has none
C28_Witness ==
  /\ last.op = "ocr" /\ last.result = "ok"
  /\ Len(pages) = 2
  /\ last.pre.pages[1].textSource = "none" /\ last.pre.pages[2].textSource = "none"
  /\ pages[1].textSource = "ocr" /\ pages[1].text = OcrText
  /\ pages[1].ocrWords = Defined(OcrWords) /\ pages[1].ocrImageSize = Defined(BitmapSize)
  /\ pages[2] = last.pre.pages[2]

MergeCallDone == call.fn = "mergePDFs" /\ call.done

RECURSIVE PagesBefore(_, _)
\* the number of pages of the first d - 1 documents of the list
PagesBefore(docs, d) == IF d <= 1 THEN 0 ELSE PagesBefore(docs, d - 1) + Len(docs[d - 1])

\* C29: mergePDFs on a non-empty list returns a document with as many pages as the
\* inputs have together, page k of input d at place (pages of the inputs before d)
\* + k; on an empty list it fails.
C29_MergeConcatenatesInOrder ==
  MergeCallDone
    => LET docs == call.args.pdfBuffers
           out == call.result
       IN IF docs = <<>> THEN ~out.ok
          ELSE /\ out.ok
               /\ Len(out.pages) = PagesBefore(docs, Len(docs) + 1)
               /\ \A d \in 1..Len(docs) : \A k \in 1..Len(docs[d]) :
                    out.pages[PagesBefore(docs, d) + k] = docs[d][k]

DeleteCallDone == call.fn = "deletePage" /\ call.done

\* the distinct indices of the list, counted from 0
DistinctIndices == Range(call.args.pageIndices)

\* C30: deletePage with an empty index list returns the document as it is; with an
\* index below 0 or at or after the page count it fails; otherwise it returns the
\* pages whose index is not in the list, in their order, so pageCount minus the
\* number of distinct indices pages.
C30_DeleteRemovesTheDistinctIndices ==
  DeleteCallDone
    => LET ps == call.args.pages
           out == call.result
           kept == SelectSeq(ps, LAMBDA pg : (pg[2] - 1) \notin DistinctIndices)
       IN IF call.args.pageIndices = <<>> THEN out.ok /\ out.pages = ps
          ELSE IF \E i \in DistinctIndices : i < 0 \/ i >= Len(ps) THEN ~out.ok
          ELSE /\ out.ok
               /\ out.pages = kept
               /\ Len(out.pages) = Len(ps) - Cardinality(DistinctIndices)

RotatePageCallDone == call.fn = "rotatePage" /\ call.done

\* C31: rotatePage with an index in 0..pageCount-1 sets the rotation of that page
\* to (current + 90) mod 360 for clockwise and (current - 90) mod 360 for
\* counterclockwise and leaves the other rotations, the pages and their number as
\* they were; with any other index it fails.
C31_RotatePageTurnsOnePage ==
  RotatePageCallDone
    => LET a == call.args
           out == call.result
       IN IF a.pageIndex < 0 \/ a.pageIndex >= Len(a.pages) THEN ~out.ok
          ELSE /\ out.ok
               /\ out.pages = a.pages
               /\ \A k \in 1..Len(a.pages) :
                    out.rotations[k] =
                      IF k = a.pageIndex + 1
                      THEN (a.rotations[k] + Delta(a.direction)) % 360
                      ELSE a.rotations[k]

ValidateCallDone == call.fn = "validatePdfRenderable" /\ call.done

\* the pixels of the thumbnail with alpha above 0 and some colour channel below 250
NonNearWhite(data) ==
  Cardinality({i \in 1..Len(data) :
                 data[i].a > 0 /\ \E ch \in {data[i].r, data[i].g, data[i].b} : ch < 250})

\* C32: the renderability check answers invalid exactly when the render failed or
\* fewer than 0.5% of the thumbnail's pixels are non-near-white, valid otherwise.
C32_InvalidBelowHalfAPercent ==
  ValidateCallDone
    => (call.result = FALSE
          <=> \/ ~call.args.rendered
              \/ NonNearWhite(call.args.data) * 1000 < Len(call.args.data) * 5)

\* a finished call with preset 'none' and bakeRotation over a non-empty list of
\* pages that all belong to unencrypted documents of the map
BakingVectorCall ==
  /\ asm.done
  /\ asm.preset = "none" /\ asm.bakeRotation
  /\ asm.pageList # <<>>
  /\ \A i \in 1..Len(asm.pageList) :
       /\ asm.pageList[i].documentId \in DOMAIN asm.docs
       /\ ~asm.docs[asm.pageList[i].documentId].encrypted

\* the page is turned in the UI, or by its own /Rotate, or its /Rotate cannot be read
CarriesRotation(p, facts) == p.rotation # 0 \/ facts.intrinsic # 0 \/ ~facts.readable

\* C33: in such a call a structural copy is attempted only for list entries that
\* carry no rotation, and when the call returns every entry that carries one is in
\* the document as a raster with its UI rotation baked in; every structural copy in
\* the document is of a page whose single-page copy was made and passed
\* validatePdfRenderable.
C33_RotatedPagesAreRasterized ==
  BakingVectorCall
    => /\ \A id \in Range(asm.result.tried) :
            \E j \in 1..Len(asm.pageList) :
              asm.pageList[j].id = id /\ ~CarriesRotation(asm.pageList[j], asm.env[id])
       /\ asm.result.ok
            => /\ Len(asm.result.out) = Len(asm.pageList)
               /\ \A i \in 1..Len(asm.pageList) :
                    LET p == asm.pageList[i]
                        facts == asm.env[p.id]
                        made == asm.result.out[i]
                    IN /\ made.src = p.id
                       /\ CarriesRotation(p, facts)
                            => /\ made.how = "raster"
                               /\ made.rotation = p.rotation
                               /\ ~made.tried
                       /\ made.how = "copy"
                            => facts.copy = "ok" /\ validatePdfRenderable(facts)

\* a call has returned a document with a raster of a page turned by its own /Rotate
\* only and a structural copy of a plain page
C33_Witness ==
  /\ BakingVectorCall /\ asm.result.ok
  /\ \E i, j \in 1..Len(asm.pageList) :
       /\ asm.pageList[i].rotation = 0
       /\ asm.env[asm.pageList[i].id].intrinsic # 0
       /\ asm.result.out[i].how = "raster"
       /\ asm.result.out[j].how = "copy"

HighlightCallDone == call.fn = "computeOcrHighlightRects" /\ call.done

\* a text without the characters that are neither letter nor digit, in lower case
Normalized(text) ==
  LET kept == SelectSeq(text, LAMBDA c : c \notin {" ", "-"})
  IN [k \in 1..Len(kept) |-> IF kept[k] = "A" THEN "a" ELSE kept[k]]

\* the places of the query where a run of characters other than blanks starts
TokenStarts(query) ==
  {s \in 1..Len(query) : query[s] # " " /\ (s = 1 \/ query[s - 1] = " ")}

\* the run of characters other than blanks that starts at s
TokenAt(query, s) ==
  LET e == CHOOSE e \in s..Len(query) :
             /\ \A k \in s..e : query[k] # " "
             /\ (e = Len(query) \/ query[e + 1] = " ")
  IN SubSeq(query, s, e)

RECURSIVE InOrder(_)
\* the numbers of a set from the smallest to the largest
InOrder(S) ==
  IF S = {} THEN <<>>
  ELSE LET least == CHOOSE n \in S : \A m \in S : n <= m
       IN <<least>> \o InOrder(S \ {least})

\* the normalized tokens of the query that are not empty, in order
NonEmptyTokens(query) ==
  LET starts == InOrder(TokenStarts(query))
  IN SelectSeq([k \in 1..Len(starts) |-> Normalized(TokenAt(query, starts[k]))],
               LAMBDA n : n # <<>>)

\* the start indices (from 1) of the runs of words that spell the tokens
RunStarts(words, tokens) ==
  {i \in 1..Len(words) :
     /\ i + Len(tokens) - 1 <= Len(words)
     /\ \A t \in 1..Len(tokens) : Normalized(words[i + t - 1].text) = tokens[t]}

\* the smallest rectangle that holds the boxes of words i .. i + k - 1
UnionOfBoxes(words, i, k) ==
  LET run == i..(i + k - 1)
      left == CHOOSE v \in {words[j].x : j \in run} : \A j \in run : v <= words[j].x
      top == CHOOSE v \in {words[j].y : j \in run} : \A j \in run : v <= words[j].y
      right == CHOOSE v \in {words[j].x + words[j].width : j \in run} :
                 \A j \in run : v >= words[j].x + words[j].width
      bottom == CHOOSE v \in {words[j].y + words[j].height : j \in run} :
                  \A j \in run : v >= words[j].y + words[j].height
  IN TextRect(left, top, right - left, bottom - top)

\* C34: the highlight rectangles of an OCR page for a query are, in the order of the
\* words, one rectangle per start index of a run of consecutive words whose
\* normalized texts are the normalized non-empty tokens of the query, each the union
\* of the boxes of the run; a query without such a token gives none.
C34_OneRectanglePerRunOfWords ==
  HighlightCallDone
    => LET words == call.args.words
           tokens == NonEmptyTokens(call.args.query)
           starts == IF tokens = <<>> THEN <<>> ELSE InOrder(RunStarts(words, tokens))
       IN call.result = [j \in 1..Len(starts) |-> UnionOfBoxes(words, starts[j], Len(tokens))]

\* a query of two tokens, written with other case and punctuation than the words,
\* has given the union of two words that are on different lines
C34_Witness ==
  /\ HighlightCallDone
  /\ Len(NonEmptyTokens(call.args.query)) = 2
  /\ Len(call.result) = 1
  /\ \E i \in 1..(Len(call.args.words) - 1) :
       /\ i \in RunStarts(call.args.words, NonEmptyTokens(call.args.query))
       /\ call.args.words[i].text = <<"A", "-">>
       /\ call.args.words[i + 1].y # call.args.words[i].y
       /\ call.result[1].height > 1

OcrRunDone == call.fn = "handleRunOcr" /\ call.done

\* the pages of the run that are not skipped
RunTargets == OcrTargets(call.args.pages, call.args.docs, call.args.mode)

\* C35: after an OCR run, every page whose render or recognition failed is as it was
\* before the run (a page without text still has textSource none), and every page
\* of the run in which words were recognized is tagged ocr, whatever failed for
\* the other pages.
C35_OcrFailureIsRecoveredPerPage ==
  OcrRunDone
    => \A k \in RunTargets :
         /\ call.args.outcomes[k] \in {"renderThrows", "ocrThrows"}
              => call.result.pages[k] = call.args.pages[k]
         /\ call.args.outcomes[k] = "words"
              => call.result.pages[k].textSource = "ocr"

\* the last operation has ended without changing the workspace: a merge, split or OCR
\* run that failed or recognized nothing, or a load that skipped every document
EndedWithoutEffect ==
  /\ last.op \in {"merge", "split", "ocr", "load"}
  /\ last.result \in {"error", "noop"}

\* C36: an operation that ends without effect leaves no entry on the undo stack: once
\* it has ended and nothing else is running, the stack is as deep as when the
\* operation started, so its top is not a snapshot of the workspace as it still is
\* and one undo reverts the last operation that changed the workspace.
C36_FailedOperationsLeaveNoUndoEntry ==
  (EndedWithoutEffect /\ jobs = <<>>)
    => (undoStack = <<>> \/ undoStack[Len(undoStack)] # Workspace)

\* every entry of searchResults carries the id of a page of the workspace
ResultsReferToPages ==
  \A k \in 1..Len(searchResults) :
    \E i \in 1..Len(pages) : pages[i].id = searchResults[k].pageId

\* with results, currentMatchIndex is the index of one of them
MatchIndexInRange == totalMatches # 0 => currentMatchIndex \in 0..(totalMatches - 1)

\* a step of goToNextMatch or goToPreviousMatch: everything but the index is kept
MovesToMatch(index) ==
  /\ searchResults' = searchResults /\ totalMatches # 0
  /\ UNCHANGED <<pages, ops, jobs>>
  /\ currentMatchIndex' # currentMatchIndex
  /\ currentMatchIndex' = index

\* C37: in every state every entry of searchResults refers to a page of the
\* workspace and, when there are results, currentMatchIndex is within
\* 0..results-1; a step to the next or previous match moves by one, from the last
\* to the first and from the first to the last.
C37_ResultsReferToWorkspacePages ==
  [][/\ ResultsReferToPages'
     /\ MatchIndexInRange'
     /\ \A index \in 0..MaxPages :
          MovesToMatch(index)
            => \/ index = (currentMatchIndex + 1) % totalMatches
               \/ index = (currentMatchIndex - 1) % totalMatches]_vars

\* C38: every export request made on a workspace with more than one document ends;
\* whenever the choice dialog is not shown no request is left waiting for a choice
\* and the resolver ref is cleared; no request's promise is resolved twice.
C38_ExportRequestsComplete ==
  /\ \A r \in 1..MaxExports :
       (r <= Len(requests) /\ hasMultipleDocuments)
         ~> (r <= Len(requests) /\ requests[r].state = "ended")
  /\ [](~exportChoiceOpen
          => /\ exportResolverRef = 0
             /\ \A r \in 1..Len(requests) : requests[r].state # "waiting")
  /\ [](\A r \in 1..Len(requests) : requests[r].resolved <= 1)

\* the text fields of one page agree
TextFieldsAgree(p) ==
  /\ p.hasText <=> p.textSource \in {"native", "ocr"}
  /\ p.hasText <=> p.text # <<>>
  /\ p.textSource = "ocr" => (p.ocrWords # Undefined /\ p.ocrImageSize # Undefined)

\* C39: in every reachable workspace state, for each page, hasText is true exactly
\* when textSource is native or ocr, exactly when text is non-empty, and a page with
\* textSource ocr has both its OCR word list and its OCR image size.
C39_TextFieldsAgree == \A k \in 1..Len(pages) : TextFieldsAgree(pages[k])

\* after an undo the workspace holds a page recognized by OCR next to a page
\* without text
C39_Witness ==
  /\ last.op = "undo"
  /\ \E k \in 1..Len(pages) : pages[k].textSource = "ocr" /\ pages[k].text # <<>>
  /\ \E k \in 1..Len(pages) : pages[k].textSource = "none" /\ ~pages[k].hasText

\* the fields a merge or split carries from a page of the old list to a new one
CarriedFields(p) ==
  <<p.rotation, p.hasText, p.textSource, p.text, p.ocrWords, p.ocrImageSize>>

RECURSIVE RangePages(_, _)
\* the source pages of the ranges, one range after the other
RangePages(ranges, srcPages) ==
  IF ranges = <<>> THEN <<>>
  ELSE SubSeq(srcPages, Head(ranges).start, Head(ranges).end)
         \o RangePages(Tail(ranges), srcPages)

RECURSIVE RangeOwners(_, _)
\* for each page of RangePages, the document of its range
RangeOwners(ranges, ids) ==
  IF ranges = <<>> THEN <<>>
  ELSE [k \in 1..(Head(ranges).end - Head(ranges).start + 1) |-> Head(ids)]
         \o RangeOwners(Tail(ranges), Tail(ids))

MergeSucceeds == Len(jobs') < Len(jobs) /\ last'.op = "merge" /\ last'.result = "ok"

SplitSucceeds == Len(jobs') < Len(jobs) /\ last'.op = "split" /\ last'.result = "ok"

\* C40: when a merge succeeds the workspace holds exactly one document, documentOrder
\* is that one id, and pages is as long as the list the merge was given, page i
\* carrying rotation, hasText, textSource, text and OCR fields of page i of that list;
\* when a split with ranges r1..rk succeeds the workspace holds k documents in range
\* order and pages is the concatenation of the ranges' source pages, each in the
\* document of its range and carrying its source page's rotation and text fields.
C40_MergeAndSplitCarryThePages ==
  [][/\ MergeSucceeds
        => /\ Cardinality(DOMAIN documents') = 1
           /\ Len(documentOrder') = 1 /\ documentOrder'[1] \in DOMAIN documents'
           /\ Len(pages') = Len(last'.pre.pages)
           /\ \A i \in 1..Len(pages') :
                /\ pages'[i].documentId = documentOrder'[1]
                /\ i <= Len(last'.pre.pages)
                     => CarriedFields(pages'[i]) = CarriedFields(last'.pre.pages[i])
     /\ SplitSucceeds
        => LET old == last'.pre.pages
               ranges == SplitRanges(last'.text, Len(old)).ranges
               src == RangePages(ranges, old)
               owner == RangeOwners(ranges, documentOrder')
           IN /\ Len(documentOrder') = Len(ranges)
              /\ Cardinality(DOMAIN documents') = Len(ranges)
              /\ Range(documentOrder') = DOMAIN documents'
              /\ Len(pages') = Len(src)
              /\ \A i \in 1..Len(pages') :
                   i <= Len(src)
                     => /\ pages'[i].documentId = owner[i]
                        /\ CarriedFields(pages'[i]) = CarriedFields(src[i])]_vars

\* a split with "2,1" of a list of two pages, one of them recognized by OCR, has
\* completed: two documents in range order, the second page of the old list first
C40_Witness ==
  /\ last.op = "split" /\ last.result = "ok"
  /\ last.text = <<"2", ",", "1">>
  /\ Len(last.pre.pages) = 2
  /\ CarriedFields(last.pre.pages[1]) # CarriedFields(last.pre.pages[2])
  /\ \E k \in 1..2 : last.pre.pages[k].textSource = "ocr"
  /\ Len(documentOrder) = 2 /\ Len(pages) = 2
  /\ pages[1].documentId = documentOrder[1]
  /\ CarriedFields(pages[1]) = CarriedFields(last.pre.pages[2])
====
